---- MODULE Spec2Model ----
(***************************************************************************)
(* Model of the derivation engine of polari-materials-science-module:      *)
(* the derived-value classes of the property hierarchy, the raw            *)
(* measurement records they aggregate, and the calculate_from_* methods.   *)
(*                                                                         *)
(* Python floats are modelled as exact rationals <<n, d>> (d > 0, lowest   *)
(* terms).  An object is a function from attribute names to values; the    *)
(* attribute "cls" holds type(self).__name__.  hasattr(m, 'x') is          *)
(* "x" \in DOMAIN m.  The heap maps object identities to objects; while a  *)
(* call has not yet been taken up by its caller, pre holds the heap as it  *)
(* was when the call was made.                                             *)
(***************************************************************************)
EXTENDS Integers, Sequences, FiniteSets, TLC

VARIABLES heap, pre, last, ret, status, ncalls, prev, module

vars == <<heap, pre, last, ret, status, ncalls, prev, module>>

(***************************************************************************)
(* Bounds of the model.                                                    *)
(***************************************************************************)
MaxLen == 3
MaxCalls == 2

(***************************************************************************)
(* Rational arithmetic standing for Python float arithmetic.               *)
(***************************************************************************)
Abs(n) == IF n < 0 THEN 0 - n ELSE n

RECURSIVE GCD(_, _)
GCD(a, b) == IF b = 0 THEN a ELSE GCD(b, a % b)

Rat(n, d) ==
    LET g == GCD(Abs(n), Abs(d))
        s == IF d < 0 THEN 0 - 1 ELSE 1
    IN  <<(s * n) \div g, (s * d) \div g>>

I(n) == <<n, 1>>

RAdd(a, b) == Rat(a[1] * b[2] + b[1] * a[2], a[2] * b[2])
RSub(a, b) == Rat(a[1] * b[2] - b[1] * a[2], a[2] * b[2])
RMul(a, b) == Rat(a[1] * b[1], a[2] * b[2])
RDiv(a, b) == Rat(a[1] * b[2], a[2] * b[1])
RGt(a, b) == a[1] * b[2] > b[1] * a[2]
RLe(a, b) == ~RGt(a, b)
RLt(a, b) == RGt(b, a)

(* self.attr = value for each attr of f, later assignments overriding.     *)
SetAttrs(o, f) ==
    [k \in DOMAIN o \cup DOMAIN f |-> IF k \in DOMAIN f THEN f[k] ELSE o[k]]

hasattr(o, a) == a \in DOMAIN o

(***************************************************************************)
(* Constructors, one operator per __init__, parents called first.          *)
(***************************************************************************)
MaterialProperty(name, description) ==
    [name |-> name, description |-> description, deviceId |-> ""]

PropertyCategory(name, description, materialId, categoryDescription) ==
    SetAttrs(MaterialProperty(name, description),
             [materialId |-> materialId,
              categoryDescription |-> categoryDescription])

MechanicalProperty(name, description, materialId) ==
    PropertyCategory(name, description, materialId,
        "Strength and resistance properties including hardness and tensile strength")

RheologicalProperty(name, description, materialId) ==
    PropertyCategory(name, description, materialId,
        "Flow and deformation properties including viscosity, elasticity, and melt flow")

SurfaceProperty(name, description, materialId) ==
    PropertyCategory(name, description, materialId,
        "Interfacial properties including surface energy and surface tension")

ThermalProperty(name, description, materialId) ==
    PropertyCategory(name, description, materialId,
        "Temperature-dependent properties including melting point, Tg, and thermal expansion")

(* ---- hardness ---- *)
Hardness(name, description, materialId) ==
    SetAttrs(MechanicalProperty(name, description, materialId),
             [abstractionLevel |-> 1])

HardnessScale(materialId, hardnessValue, scale, temperature, measurementDate, notes) ==
    SetAttrs(Hardness("Hardness Scale",
                      "Derived hardness on " \o scale \o " scale", materialId),
             [cls |-> "HardnessScale",
              hardnessValue |-> hardnessValue,
              scale |-> scale,
              temperature |-> temperature,
              measurementDate |-> measurementDate,
              notes |-> notes,
              abstractionLevel |-> 2])

(* Variant whose constructor stops before its own level assignment, so the *)
(* level written by the parent constructor stays.                          *)
ShoreMeasurement_keeping_parent_level(materialId, hardnessScaleId, sequenceNumber, hardnessReading) ==
    SetAttrs(HardnessScale(materialId, hardnessReading, "Shore " \o "A", I(23), "", ""),
             [cls |-> "ShoreMeasurement",
              hardnessScaleId |-> hardnessScaleId,
              sequenceNumber |-> sequenceNumber,
              hardnessReading |-> hardnessReading,
              shoreType |-> "A",
              readingTime |-> I(1),
              sampleThickness |-> I(6),
              locationOnSample |-> "",
              operator |-> "",
              equipment |-> "",
              openSourceImplementationExists |-> TRUE])

(* Variant that validates the reading: a negative reading is stored as 0.  *)
ShoreMeasurement_clamping_reading(materialId, hardnessScaleId, sequenceNumber, hardnessReading) ==
    SetAttrs(HardnessScale(materialId, hardnessReading, "Shore " \o "A", I(23), "", ""),
             [cls |-> "ShoreMeasurement",
              hardnessScaleId |-> hardnessScaleId,
              sequenceNumber |-> sequenceNumber,
              hardnessReading |-> IF RLt(hardnessReading, I(0)) THEN I(0) ELSE hardnessReading,
              shoreType |-> "A",
              readingTime |-> I(1),
              sampleThickness |-> I(6),
              locationOnSample |-> "",
              operator |-> "",
              equipment |-> "",
              openSourceImplementationExists |-> TRUE,
              abstractionLevel |-> 3])

ShoreMeasurement(materialId, hardnessScaleId, sequenceNumber, hardnessReading) ==
    SetAttrs(HardnessScale(materialId, hardnessReading, "Shore " \o "A", I(23), "", ""),
             [cls |-> "ShoreMeasurement",
              hardnessScaleId |-> hardnessScaleId,
              sequenceNumber |-> sequenceNumber,
              hardnessReading |-> hardnessReading,
              shoreType |-> "A",
              readingTime |-> I(1),
              sampleThickness |-> I(6),
              locationOnSample |-> "",
              operator |-> "",
              equipment |-> "",
              openSourceImplementationExists |-> TRUE,
              abstractionLevel |-> 3])

(* ---- specific gravity ---- *)
SpecificGravity(name, description, materialId) ==
    SetAttrs(MaterialProperty(name, description),
             [materialId |-> materialId, abstractionLevel |-> 1])

ReferentialSpecificGravity(materialId, specificGravityValue) ==
    SetAttrs(SpecificGravity("Referential Specific Gravity",
                 "Specific gravity normalized against reference material", materialId),
             [cls |-> "ReferentialSpecificGravity",
              specificGravityValue |-> specificGravityValue,
              referenceMaterial |-> "water_4C",
              referenceTemperature |-> I(4),
              sampleTemperature |-> I(25),
              measurementDate |-> "",
              notes |-> "",
              abstractionLevel |-> 2])

PycnometerMeasurement(materialId, referentialSpecificGravityId, sequenceNumber, emptyWeight, referenceWeight, sampleWeight, specificGravityValue) ==
    SetAttrs(SpecificGravity("Pycnometer Measurement",
                 "Raw pycnometer specific gravity measurement", materialId),
             [cls |-> "PycnometerMeasurement",
              referentialSpecificGravityId |-> referentialSpecificGravityId,
              sequenceNumber |-> sequenceNumber,
              emptyWeight |-> emptyWeight,
              referenceWeight |-> referenceWeight,
              sampleWeight |-> sampleWeight,
              specificGravityValue |-> specificGravityValue,
              temperature |-> I(25),
              pycnometerVolume |-> I(0),
              measurementDate |-> "",
              operator |-> "",
              equipment |-> "",
              notes |-> "",
              abstractionLevel |-> 3])

DensityMeterMeasurement(materialId, referentialSpecificGravityId, sequenceNumber, densityValue, specificGravityValue, referenceDensity) ==
    SetAttrs(SpecificGravity("Density Meter Measurement",
                 "Raw digital density meter measurement", materialId),
             [cls |-> "DensityMeterMeasurement",
              referentialSpecificGravityId |-> referentialSpecificGravityId,
              sequenceNumber |-> sequenceNumber,
              densityValue |-> densityValue,
              specificGravityValue |-> specificGravityValue,
              oscillationFrequency |-> I(0),
              temperature |-> I(25),
              referenceDensity |-> referenceDensity,
              measurementDate |-> "",
              operator |-> "",
              equipment |-> "",
              calibrationDate |-> "",
              notes |-> "",
              abstractionLevel |-> 3])

HydrometerMeasurement(materialId, referentialSpecificGravityId, sequenceNumber, scaleReading, specificGravityValue, scaleType) ==
    SetAttrs(SpecificGravity("Hydrometer Measurement",
                 "Raw hydrometer specific gravity measurement", materialId),
             [cls |-> "HydrometerMeasurement",
              referentialSpecificGravityId |-> referentialSpecificGravityId,
              sequenceNumber |-> sequenceNumber,
              scaleReading |-> scaleReading,
              specificGravityValue |-> specificGravityValue,
              scaleType |-> scaleType,
              temperature |-> I(25),
              calibrationTemperature |-> I(20),
              measurementDate |-> "",
              operator |-> "",
              equipment |-> "",
              notes |-> "",
              abstractionLevel |-> 3])

(* ---- liquid surface tension ---- *)
LiquidSurfaceTension(name, description, materialId) ==
    SetAttrs(SurfaceProperty(name, description, materialId),
             [abstractionLevel |-> 1])

SurfaceTensionValue(materialId, surfaceTensionMNm, measurementMethod, temperature) ==
    SetAttrs(LiquidSurfaceTension("Surface Tension Value",
                 "Derived surface tension in mN/m", materialId),
             [cls |-> "SurfaceTensionValue",
              surfaceTensionMNm |-> surfaceTensionMNm,
              interfacialTensionMNm |-> I(0),
              secondPhase |-> "air",
              measurementMethod |-> measurementMethod,
              temperature |-> temperature,
              measurementDate |-> "",
              notes |-> "",
              abstractionLevel |-> 2])

(* math.cos(math.radians(angle)) on the angles the model uses. *)
CosDeg(angle) ==
    CASE angle = I(0) -> I(1)
      [] angle = I(60) -> Rat(1, 2)
      [] angle = I(120) -> Rat(0 - 1, 2)
      [] angle = I(180) -> I(0 - 1)

WilhelmyMeasurement_calculate_surface_tension(self) ==
    IF RGt(self.platePerimeterMm, I(0))
    THEN LET cos_theta == CosDeg(self.contactAngle)
         IN  IF RGt(cos_theta, I(0))
             THEN SetAttrs(self, [surfaceTensionMNm |->
                      RDiv(self.forceMN, RMul(self.platePerimeterMm, cos_theta))])
             ELSE self
    ELSE self

WilhelmyMeasurement(materialId, surfaceTensionValueId, sequenceNumber, forceMN, platePerimeterMm, contactAngle) ==
    WilhelmyMeasurement_calculate_surface_tension(
        SetAttrs(SurfaceTensionValue(materialId, I(0), "Wilhelmy plate", I(20)),
                 [cls |-> "WilhelmyMeasurement",
                  surfaceTensionValueId |-> surfaceTensionValueId,
                  sequenceNumber |-> sequenceNumber,
                  forceMN |-> forceMN,
                  platePerimeterMm |-> platePerimeterMm,
                  plateMaterial |-> "platinum",
                  contactAngle |-> contactAngle,
                  immersionDepthMm |-> I(0),
                  operator |-> "",
                  equipment |-> "",
                  openSourceImplementationExists |-> TRUE,
                  abstractionLevel |-> 3]))

(* ---- melt flow index ---- *)
MeltFlowIndex(name, description, materialId) ==
    SetAttrs(RheologicalProperty(name, description, materialId),
             [abstractionLevel |-> 1])

MFIValue(materialId, mfiGramsPer10Min, testTemperature, testLoad) ==
    SetAttrs(MeltFlowIndex("MFI Value", "Derived Melt Flow Index in g/10min", materialId),
             [cls |-> "MFIValue",
              mfiGramsPer10Min |-> mfiGramsPer10Min,
              testTemperature |-> testTemperature,
              testLoad |-> testLoad,
              polymerType |-> "",
              measurementDate |-> "",
              notes |-> "",
              abstractionLevel |-> 2])

(* Variant whose constructor stops before the instantaneous value is       *)
(* calculated.                                                             *)
MFIMeasurement_without_eager_value(materialId, mfiValueId, sequenceNumber, extrusionTime, extrudateMass) ==
    SetAttrs(MFIValue(materialId, I(0), I(190), Rat(216, 100)),
             [cls |-> "MFIMeasurement",
              mfiValueId |-> mfiValueId,
              sequenceNumber |-> sequenceNumber,
              extrusionTime |-> extrusionTime,
              extrudateMass |-> extrudateMass,
              preheatTime |-> I(300),
              barrelTemperature |-> I(190),
              dieDiameter |-> Rat(2095, 1000),
              dieLength |-> I(8),
              operator |-> "",
              equipment |-> "",
              openSourceImplementationExists |-> TRUE,
              abstractionLevel |-> 3])

MFIMeasurement(materialId, mfiValueId, sequenceNumber, extrusionTime, extrudateMass) ==
    LET o == SetAttrs(MFIValue(materialId, I(0), I(190), Rat(216, 100)),
                 [cls |-> "MFIMeasurement",
                  mfiValueId |-> mfiValueId,
                  sequenceNumber |-> sequenceNumber,
                  extrusionTime |-> extrusionTime,
                  extrudateMass |-> extrudateMass,
                  preheatTime |-> I(300),
                  barrelTemperature |-> I(190),
                  dieDiameter |-> Rat(2095, 1000),
                  dieLength |-> I(8),
                  operator |-> "",
                  equipment |-> "",
                  openSourceImplementationExists |-> TRUE,
                  abstractionLevel |-> 3])
    IN  IF RGt(o.extrusionTime, I(0))
        THEN SetAttrs(o, [mfiGramsPer10Min |->
                 RMul(RDiv(o.extrudateMass, o.extrusionTime), I(600))])
        ELSE o

(* ---- viscosity ---- *)
Viscosity(name, description, materialId) ==
    SetAttrs(RheologicalProperty(name, description, materialId),
             [abstractionLevel |-> 1])

KrebsViscosity(materialId, viscosityKU) ==
    SetAttrs(Viscosity("Krebs Viscosity", "Derived viscosity in Krebs Units (KU)", materialId),
             [cls |-> "KrebsViscosity",
              viscosityKU |-> viscosityKU,
              temperature |-> I(25),
              measurementDate |-> "",
              notes |-> "",
              abstractionLevel |-> 2])

StormerViscosity(materialId, krebsViscosityId, sequenceNumber, revolutions, grams) ==
    SetAttrs(Viscosity("Stormer Viscosity",
                 "Raw Stormer viscometer measurement datapoint", materialId),
             [cls |-> "StormerViscosity",
              krebsViscosityId |-> krebsViscosityId,
              sequenceNumber |-> sequenceNumber,
              time |-> I(0),
              revolutions |-> revolutions,
              grams |-> grams,
              temperature |-> I(25),
              measurementDate |-> "",
              operator |-> "",
              equipment |-> "",
              notes |-> "",
              abstractionLevel |-> 3])

(* ---- tensile strength ---- *)
TensileStrength(name, description, materialId) ==
    SetAttrs(MechanicalProperty(name, description, materialId),
             [abstractionLevel |-> 1])

UltimateTensileStrength(materialId, utsMPa) ==
    SetAttrs(TensileStrength("Ultimate Tensile Strength", "Derived UTS value in MPa", materialId),
             [cls |-> "UltimateTensileStrength",
              utsMPa |-> utsMPa,
              yieldStrengthMPa |-> I(0),
              elongationAtBreak |-> I(0),
              youngsModulusMPa |-> I(0),
              specimenType |-> "Type I",
              testSpeed |-> I(5),
              temperature |-> I(23),
              measurementDate |-> "",
              notes |-> "",
              abstractionLevel |-> 2])

TensileMeasurement(materialId, utsId, sequenceNumber, forceN) ==
    SetAttrs(UltimateTensileStrength(materialId, I(0)),
             [cls |-> "TensileMeasurement",
              utsId |-> utsId,
              sequenceNumber |-> sequenceNumber,
              forceN |-> forceN,
              displacementMm |-> I(0),
              time |-> I(0),
              gaugeLength |-> I(50),
              specimenWidth |-> I(13),
              specimenThickness |-> Rat(32, 10),
              extensometerStrain |-> I(0),
              operator |-> "",
              equipment |-> "",
              openSourceImplementationExists |-> TRUE,
              abstractionLevel |-> 3])

(* ---- thermal expansion ---- *)
ThermalExpansion(name, description, materialId) ==
    SetAttrs(ThermalProperty(name, description, materialId),
             [abstractionLevel |-> 1])

CoefficientOfThermalExpansion(materialId, ctePpmPerC, temperatureRangeLowC, temperatureRangeHighC) ==
    SetAttrs(ThermalExpansion("Coefficient of Thermal Expansion",
                 "Derived CTE in ppm/\\u00b0C", materialId),
             [cls |-> "CoefficientOfThermalExpansion",
              ctePpmPerC |-> ctePpmPerC,
              temperatureRangeLowC |-> temperatureRangeLowC,
              temperatureRangeHighC |-> temperatureRangeHighC,
              expansionType |-> "linear",
              direction |-> "isotropic",
              measurementMethod |-> "TMA",
              heatingRate |-> I(5),
              measurementDate |-> "",
              notes |-> "",
              abstractionLevel |-> 2])

(* Variant that numbers from one: a sequence number below 1 is stored as 1. *)
TMAMeasurement_numbering_from_one(materialId, cteId, sequenceNumber, temperatureC, dimensionChangeMicron) ==
    SetAttrs(CoefficientOfThermalExpansion(materialId, I(0), I(25), I(100)),
             [cls |-> "TMAMeasurement",
              cteId |-> cteId,
              sequenceNumber |-> IF sequenceNumber < 1 THEN 1 ELSE sequenceNumber,
              temperatureC |-> temperatureC,
              dimensionChangeMicron |-> dimensionChangeMicron,
              time |-> I(0),
              originalLengthMm |-> I(10),
              probeForceN |-> Rat(2, 100),
              probeType |-> "expansion",
              atmosphere |-> "nitrogen",
              operator |-> "",
              equipment |-> "",
              openSourceImplementationExists |-> TRUE,
              abstractionLevel |-> 3])

TMAMeasurement(materialId, cteId, sequenceNumber, temperatureC, dimensionChangeMicron) ==
    SetAttrs(CoefficientOfThermalExpansion(materialId, I(0), I(25), I(100)),
             [cls |-> "TMAMeasurement",
              cteId |-> cteId,
              sequenceNumber |-> sequenceNumber,
              temperatureC |-> temperatureC,
              dimensionChangeMicron |-> dimensionChangeMicron,
              time |-> I(0),
              originalLengthMm |-> I(10),
              probeForceN |-> Rat(2, 100),
              probeType |-> "expansion",
              atmosphere |-> "nitrogen",
              operator |-> "",
              equipment |-> "",
              openSourceImplementationExists |-> TRUE,
              abstractionLevel |-> 3])

(* ---- elasticity ---- *)
Elasticity(name, description, materialId) ==
    SetAttrs(RheologicalProperty(name, description, materialId),
             [abstractionLevel |-> 1])

StorageModulus(materialId, storageModulusPa, lossModulusPa, lossFactor) ==
    SetAttrs(Elasticity("Storage Modulus",
                 "Derived storage modulus G' in Pascals", materialId),
             [cls |-> "StorageModulus",
              storageModulusPa |-> storageModulusPa,
              lossModulusPa |-> lossModulusPa,
              lossFactor |-> lossFactor,
              frequency |-> I(1),
              temperature |-> I(25),
              measurementDate |-> "",
              notes |-> "",
              abstractionLevel |-> 2])

DMAMeasurement(materialId, storageModulusId, sequenceNumber, storageModulusPa, lossModulusPa) ==
    SetAttrs(StorageModulus(materialId, storageModulusPa, lossModulusPa, I(0)),
             [cls |-> "DMAMeasurement",
              storageModulusId |-> storageModulusId,
              sequenceNumber |-> sequenceNumber,
              strain |-> I(0),
              stress |-> I(0),
              phaseAngle |-> I(0),
              sampleLength |-> I(0),
              sampleWidth |-> I(0),
              sampleThickness |-> I(0),
              clampType |-> "",
              operator |-> "",
              equipment |-> "",
              openSourceImplementationExists |-> TRUE,
              abstractionLevel |-> 3])

RheometerMeasurement(materialId, storageModulusId, sequenceNumber, storageModulusPa, lossModulusPa) ==
    SetAttrs(StorageModulus(materialId, storageModulusPa, lossModulusPa, I(0)),
             [cls |-> "RheometerMeasurement",
              storageModulusId |-> storageModulusId,
              sequenceNumber |-> sequenceNumber,
              geometry |-> "parallel-plate",
              gapDistance |-> I(1),
              strain |-> I(0),
              shearRate |-> I(0),
              torque |-> I(0),
              normalForce |-> I(0),
              operator |-> "",
              equipment |-> "",
              openSourceImplementationExists |-> TRUE,
              abstractionLevel |-> 3])

(* ---- glass transition ---- *)
GlassTransition(name, description, materialId) ==
    SetAttrs(ThermalProperty(name, description, materialId),
             [abstractionLevel |-> 1])

GlassTransitionTemp(materialId, tgCelsius, measurementMethod, heatingRate) ==
    SetAttrs(GlassTransition("Glass Transition Temperature",
                 "Derived Tg value in Celsius", materialId),
             [cls |-> "GlassTransitionTemp",
              tgCelsius |-> tgCelsius,
              tgOnset |-> I(0),
              tgMidpoint |-> I(0),
              tgEndset |-> I(0),
              deltaCp |-> I(0),
              measurementMethod |-> measurementMethod,
              heatingRate |-> heatingRate,
              frequency |-> I(1),
              measurementDate |-> "",
              notes |-> "",
              abstractionLevel |-> 2])

DMAGlassTransitionMeasurement(materialId, glassTransitionTempId, sequenceNumber, storageModulusPa, lossModulusPa, tanDelta) ==
    SetAttrs(GlassTransitionTemp(materialId, I(0), "DMA-tan\\u03b4", I(3)),
             [cls |-> "DMAGlassTransitionMeasurement",
              glassTransitionTempId |-> glassTransitionTempId,
              sequenceNumber |-> sequenceNumber,
              temperatureC |-> I(0),
              storageModulusPa |-> storageModulusPa,
              lossModulusPa |-> lossModulusPa,
              tanDelta |-> tanDelta,
              strain |-> Rat(1, 10),
              clampType |-> "single cantilever",
              sampleLength |-> I(0),
              sampleWidth |-> I(0),
              sampleThickness |-> I(0),
              operator |-> "",
              equipment |-> "",
              openSourceImplementationExists |-> TRUE,
              abstractionLevel |-> 3])

(* ---- melting point ---- *)
MeltingPoint(name, description, materialId) ==
    SetAttrs(ThermalProperty(name, description, materialId),
             [abstractionLevel |-> 1])

MeltingPointValue(materialId, meltingPointC, heatOfFusionJg, crystallinityPercent) ==
    SetAttrs(MeltingPoint("Melting Point Value",
                 "Derived melting temperature in Celsius", materialId),
             [cls |-> "MeltingPointValue",
              meltingPointC |-> meltingPointC,
              meltingPointOnsetC |-> I(0),
              meltingPointPeakC |-> I(0),
              heatOfFusionJg |-> heatOfFusionJg,
              crystallinityPercent |-> crystallinityPercent,
              measurementMethod |-> "DSC",
              heatingRate |-> I(10),
              measurementDate |-> "",
              notes |-> "",
              abstractionLevel |-> 2])

DSCMeltingMeasurement(materialId, meltingPointValueId, sequenceNumber, heatFlowMW, sampleMassMg) ==
    SetAttrs(MeltingPointValue(materialId, I(0), I(0), I(0)),
             [cls |-> "DSCMeltingMeasurement",
              meltingPointValueId |-> meltingPointValueId,
              sequenceNumber |-> sequenceNumber,
              temperatureC |-> I(0),
              heatFlowMW |-> heatFlowMW,
              time |-> I(0),
              sampleMassMg |-> sampleMassMg,
              panType |-> "aluminum",
              atmosphere |-> "nitrogen",
              flowRateMlMin |-> I(50),
              operator |-> "",
              equipment |-> "",
              openSourceImplementationExists |-> FALSE,
              abstractionLevel |-> 3])

(* ---- smoking point ---- *)
SmokingPoint(name, description, materialId) ==
    SetAttrs(ThermalProperty(name, description, materialId),
             [abstractionLevel |-> 1])

SmokingPointValue(materialId, smokingPointC, measurementMethod, heatingRate) ==
    SetAttrs(SmokingPoint("Smoking Point Value",
                 "Derived smoking point in Celsius", materialId),
             [cls |-> "SmokingPointValue",
              smokingPointC |-> smokingPointC,
              flashPointC |-> I(0),
              firePointC |-> I(0),
              measurementMethod |-> measurementMethod,
              heatingRate |-> heatingRate,
              measurementDate |-> "",
              notes |-> "",
              abstractionLevel |-> 2])

SmokingPointMeasurement(materialId, smokingPointValueId, sequenceNumber, observedTemperatureC, detectionMethod) ==
    SetAttrs(SmokingPointValue(materialId, observedTemperatureC, detectionMethod, I(5)),
             [cls |-> "SmokingPointMeasurement",
              smokingPointValueId |-> smokingPointValueId,
              sequenceNumber |-> sequenceNumber,
              observedTemperatureC |-> observedTemperatureC,
              cupType |-> "Cleveland open cup",
              sampleVolumeMl |-> I(75),
              ambientTemperature |-> I(23),
              humidity |-> I(50),
              detectionMethod |-> detectionMethod,
              operator |-> "",
              equipment |-> "",
              openSourceImplementationExists |-> TRUE,
              abstractionLevel |-> 3])

(* ---- solid surface energy ---- *)
SolidSurfaceEnergy(name, description, materialId) ==
    SetAttrs(SurfaceProperty(name, description, materialId),
             [abstractionLevel |-> 1])

CriticalSurfaceTension(materialId, surfaceEnergyMNm, dispersiveComponent, polarComponent, calculationMethod) ==
    SetAttrs(SolidSurfaceEnergy("Critical Surface Tension",
                 "Derived surface energy in mN/m", materialId),
             [cls |-> "CriticalSurfaceTension",
              surfaceEnergyMNm |-> surfaceEnergyMNm,
              dispersiveComponent |-> dispersiveComponent,
              polarComponent |-> polarComponent,
              calculationMethod |-> calculationMethod,
              temperature |-> I(23),
              measurementDate |-> "",
              notes |-> "",
              abstractionLevel |-> 2])

ContactAngleMeasurement(materialId, surfaceEnergyId, sequenceNumber, contactAngle, leftAngle, rightAngle) ==
    SetAttrs(CriticalSurfaceTension(materialId, I(0), I(0), I(0), "Owens-Wendt"),
             [cls |-> "ContactAngleMeasurement",
              surfaceEnergyId |-> surfaceEnergyId,
              sequenceNumber |-> sequenceNumber,
              contactAngle |-> contactAngle,
              probeLiquid |-> "water",
              probeLiquidSurfaceTension |-> Rat(728, 10),
              dropVolume |-> I(5),
              measurementType |-> "static",
              leftAngle |-> leftAngle,
              rightAngle |-> rightAngle,
              humidity |-> I(50),
              operator |-> "",
              equipment |-> "",
              software |-> "",
              openSourceImplementationExists |-> TRUE,
              abstractionLevel |-> 3])

(***************************************************************************)
(* Derivation methods.  Each operator takes the target object and the      *)
(* list of record objects and yields the target after the call (obj), the  *)
(* returned value (ret, a one-element sequence, empty when the call        *)
(* raised) and how the call ended (status).  All reads of the records      *)
(* happen before the single write to the target, so a target that is also  *)
(* in the list is read in its state before the call.                       *)
(***************************************************************************)
Returned(obj, attr) == [obj |-> obj, ret |-> <<obj[attr]>>, status |-> "ok"]

Raised(obj) == [obj |-> obj, ret |-> <<>>, status |-> "AttributeError"]

(* for m in measurements: if hasattr(m, attr) and m.attr > 0: total += m.attr; count += 1 *)
RECURSIVE HardnessScale_loop(_, _, _)
HardnessScale_loop(measurements, i, acc) ==
    IF i > Len(measurements) THEN acc
    ELSE LET m == measurements[i]
         IN  IF hasattr(m, "hardnessReading") /\ RGt(m.hardnessReading, I(0))
             THEN HardnessScale_loop(measurements, i + 1,
                      [total |-> RAdd(acc.total, m.hardnessReading),
                       count |-> acc.count + 1])
             ELSE HardnessScale_loop(measurements, i + 1, acc)

(* Variant without the early return for an empty list: the mean of no      *)
(* readings is stored as 0.                                                *)
HardnessScale_calculate_unguarded(self, measurements) ==
    LET acc == HardnessScale_loop(measurements, 1, [total |-> I(0), count |-> 0])
    IN  Returned(SetAttrs(self,
            [hardnessValue |-> IF acc.count > 0 THEN RDiv(acc.total, I(acc.count))
                               ELSE I(0)]), "hardnessValue")

(* A hardness derivation that adds the mean of the readings to the value  *)
(* already stored.                                                         *)
HardnessScale_calculate_accumulating(self, measurements) ==
    IF measurements = <<>> THEN Returned(self, "hardnessValue")
    ELSE LET acc == HardnessScale_loop(measurements, 1, [total |-> I(0), count |-> 0])
         IN  IF acc.count > 0
             THEN Returned(SetAttrs(self,
                      [hardnessValue |-> RAdd(self.hardnessValue, RDiv(acc.total, I(acc.count)))]),
                      "hardnessValue")
             ELSE Returned(self, "hardnessValue")

HardnessScale_calculate_from_measurements(self, measurements) ==
    IF measurements = <<>> THEN Returned(self, "hardnessValue")
    ELSE LET acc == HardnessScale_loop(measurements, 1, [total |-> I(0), count |-> 0])
         IN  IF acc.count > 0
             THEN Returned(SetAttrs(self,
                      [hardnessValue |-> RDiv(acc.total, I(acc.count))]),
                      "hardnessValue")
             ELSE Returned(self, "hardnessValue")

RECURSIVE ReferentialSpecificGravity_loop(_, _, _)
ReferentialSpecificGravity_loop(measurements, i, acc) ==
    IF i > Len(measurements) THEN acc
    ELSE LET measurement == measurements[i]
         IN  IF hasattr(measurement, "specificGravityValue") /\ RGt(measurement.specificGravityValue, I(0))
             THEN ReferentialSpecificGravity_loop(measurements, i + 1,
                      [total |-> RAdd(acc.total, measurement.specificGravityValue),
                       count |-> acc.count + 1])
             ELSE ReferentialSpecificGravity_loop(measurements, i + 1, acc)

(* Variant that also records the number of readings used on the object.    *)
ReferentialSpecificGravity_calculate_recording_count(self, measurements) ==
    IF measurements = <<>> THEN Returned(self, "specificGravityValue")
    ELSE LET acc == ReferentialSpecificGravity_loop(measurements, 1, [total |-> I(0), count |-> 0])
         IN  IF acc.count > 0
             THEN Returned(SetAttrs(self,
                      [specificGravityValue |-> RDiv(acc.total, I(acc.count)),
                       measurementCount |-> acc.count]),
                      "specificGravityValue")
             ELSE Returned(self, "specificGravityValue")

ReferentialSpecificGravity_calculate_from_measurements(self, measurements) ==
    IF measurements = <<>> THEN Returned(self, "specificGravityValue")
    ELSE LET acc == ReferentialSpecificGravity_loop(measurements, 1, [total |-> I(0), count |-> 0])
         IN  IF acc.count > 0
             THEN Returned(SetAttrs(self,
                      [specificGravityValue |-> RDiv(acc.total, I(acc.count))]),
                      "specificGravityValue")
             ELSE Returned(self, "specificGravityValue")

(* Variant that counts every record carrying the field, whatever its sign. *)
RECURSIVE SurfaceTensionValue_loop_unfiltered(_, _, _)
SurfaceTensionValue_loop_unfiltered(measurements, i, acc) ==
    IF i > Len(measurements) THEN acc
    ELSE LET m == measurements[i]
         IN  IF hasattr(m, "surfaceTensionMNm")
             THEN SurfaceTensionValue_loop_unfiltered(measurements, i + 1,
                      [total |-> RAdd(acc.total, m.surfaceTensionMNm),
                       count |-> acc.count + 1])
             ELSE SurfaceTensionValue_loop_unfiltered(measurements, i + 1, acc)

RECURSIVE SurfaceTensionValue_loop(_, _, _)
SurfaceTensionValue_loop(measurements, i, acc) ==
    IF i > Len(measurements) THEN acc
    ELSE LET m == measurements[i]
         IN  IF hasattr(m, "surfaceTensionMNm") /\ RGt(m.surfaceTensionMNm, I(0))
             THEN SurfaceTensionValue_loop(measurements, i + 1,
                      [total |-> RAdd(acc.total, m.surfaceTensionMNm),
                       count |-> acc.count + 1])
             ELSE SurfaceTensionValue_loop(measurements, i + 1, acc)

SurfaceTensionValue_calculate_from_measurements(self, measurements) ==
    IF measurements = <<>> THEN Returned(self, "surfaceTensionMNm")
    ELSE LET acc == SurfaceTensionValue_loop(measurements, 1, [total |-> I(0), count |-> 0])
         IN  IF acc.count > 0
             THEN Returned(SetAttrs(self,
                      [surfaceTensionMNm |-> RDiv(acc.total, I(acc.count))]),
                      "surfaceTensionMNm")
             ELSE Returned(self, "surfaceTensionMNm")

(* if m.extrudateMass > 0 and m.extrusionTime > 0: no hasattr guard, so a   *)
(* record without the attribute read raises AttributeError.                *)
(* An MFI loop that takes every cut with a positive extrusion time,       *)
(* whatever its mass.                                                      *)
RECURSIVE MFIValue_loop_every_timed_cut(_, _, _)
MFIValue_loop_every_timed_cut(measurements, i, acc) ==
    IF i > Len(measurements) \/ acc.raised THEN acc
    ELSE LET m == measurements[i]
         IN  IF ~hasattr(m, "extrusionTime") THEN [acc EXCEPT !.raised = TRUE]
             ELSE IF ~RGt(m.extrusionTime, I(0))
             THEN MFIValue_loop_every_timed_cut(measurements, i + 1, acc)
             ELSE IF ~hasattr(m, "extrudateMass") THEN [acc EXCEPT !.raised = TRUE]
             ELSE LET rate == RMul(RDiv(m.extrudateMass, m.extrusionTime), I(600))
                  IN  MFIValue_loop_every_timed_cut(measurements, i + 1,
                          [acc EXCEPT !.total = RAdd(acc.total, rate),
                                      !.count = acc.count + 1])

RECURSIVE MFIValue_loop(_, _, _)
MFIValue_loop(measurements, i, acc) ==
    IF i > Len(measurements) \/ acc.raised THEN acc
    ELSE LET m == measurements[i]
         IN  IF ~hasattr(m, "extrudateMass") THEN [acc EXCEPT !.raised = TRUE]
             ELSE IF ~RGt(m.extrudateMass, I(0)) THEN MFIValue_loop(measurements, i + 1, acc)
             ELSE IF ~hasattr(m, "extrusionTime") THEN [acc EXCEPT !.raised = TRUE]
             ELSE IF ~RGt(m.extrusionTime, I(0)) THEN MFIValue_loop(measurements, i + 1, acc)
             ELSE LET rate == RMul(RDiv(m.extrudateMass, m.extrusionTime), I(600))
                  IN  MFIValue_loop(measurements, i + 1,
                          [acc EXCEPT !.total = RAdd(acc.total, rate),
                                      !.count = acc.count + 1])

(* Variant that returns the average it computed (0 when every record was   *)
(* skipped) instead of reading the field back.                             *)
MFIValue_calculate_returning_average(self, measurements) ==
    IF measurements = <<>> THEN Returned(self, "mfiGramsPer10Min")
    ELSE LET acc == MFIValue_loop(measurements, 1,
                        [total |-> I(0), count |-> 0, raised |-> FALSE])
             average == IF acc.count > 0 THEN RDiv(acc.total, I(acc.count)) ELSE I(0)
         IN  IF acc.raised THEN Raised(self)
             ELSE [obj |-> IF acc.count > 0
                           THEN SetAttrs(self, [mfiGramsPer10Min |-> average])
                           ELSE self,
                   ret |-> <<average>>,
                   status |-> "ok"]

MFIValue_calculate_from_measurements(self, measurements) ==
    IF measurements = <<>> THEN Returned(self, "mfiGramsPer10Min")
    ELSE LET acc == MFIValue_loop(measurements, 1,
                        [total |-> I(0), count |-> 0, raised |-> FALSE])
         IN  IF acc.raised THEN Raised(self)
             ELSE IF acc.count > 0
             THEN Returned(SetAttrs(self,
                      [mfiGramsPer10Min |-> RDiv(acc.total, I(acc.count))]),
                      "mfiGramsPer10Min")
             ELSE Returned(self, "mfiGramsPer10Min")

(* Variant that averages the raw grams without normalizing to 200          *)
(* revolutions.                                                            *)
RECURSIVE KrebsViscosity_loop_raw_grams(_, _, _)
KrebsViscosity_loop_raw_grams(stormer_measurements, i, acc) ==
    IF i > Len(stormer_measurements) \/ acc.raised THEN acc
    ELSE LET measurement == stormer_measurements[i]
         IN  IF ~hasattr(measurement, "grams") THEN [acc EXCEPT !.raised = TRUE]
             ELSE IF ~RGt(measurement.grams, I(0))
                  THEN KrebsViscosity_loop_raw_grams(stormer_measurements, i + 1, acc)
             ELSE IF ~hasattr(measurement, "revolutions") THEN [acc EXCEPT !.raised = TRUE]
             ELSE IF ~RGt(measurement.revolutions, I(0))
                  THEN KrebsViscosity_loop_raw_grams(stormer_measurements, i + 1, acc)
             ELSE KrebsViscosity_loop_raw_grams(stormer_measurements, i + 1,
                      [acc EXCEPT !.total = RAdd(acc.total, measurement.grams),
                                  !.count = acc.count + 1])

RECURSIVE KrebsViscosity_loop(_, _, _)
KrebsViscosity_loop(stormer_measurements, i, acc) ==
    IF i > Len(stormer_measurements) \/ acc.raised THEN acc
    ELSE LET measurement == stormer_measurements[i]
         IN  IF ~hasattr(measurement, "grams") THEN [acc EXCEPT !.raised = TRUE]
             ELSE IF ~RGt(measurement.grams, I(0))
                  THEN KrebsViscosity_loop(stormer_measurements, i + 1, acc)
             ELSE IF ~hasattr(measurement, "revolutions") THEN [acc EXCEPT !.raised = TRUE]
             ELSE IF ~RGt(measurement.revolutions, I(0))
                  THEN KrebsViscosity_loop(stormer_measurements, i + 1, acc)
             ELSE LET normalized_grams ==
                          RMul(measurement.grams, RDiv(I(200), measurement.revolutions))
                  IN  KrebsViscosity_loop(stormer_measurements, i + 1,
                          [acc EXCEPT !.total = RAdd(acc.total, normalized_grams),
                                      !.count = acc.count + 1])

KrebsViscosity_calculate_from_stormer_measurements(self, stormer_measurements) ==
    IF stormer_measurements = <<>> THEN Returned(self, "viscosityKU")
    ELSE LET acc == KrebsViscosity_loop(stormer_measurements, 1,
                        [total |-> I(0), count |-> 0, raised |-> FALSE])
         IN  IF acc.raised THEN Raised(self)
             ELSE IF acc.count > 0
             THEN LET avg_normalized_grams == RDiv(acc.total, I(acc.count))
                  IN  Returned(SetAttrs(self,
                          [viscosityKU |-> RAdd(RMul(avg_normalized_grams, Rat(208, 100)),
                                                Rat(158, 10))]), "viscosityKU")
             ELSE Returned(self, "viscosityKU")

(* Variant that keeps the stress of the last valid reading: the comparison *)
(* with the running maximum is missing.                                    *)
RECURSIVE UltimateTensileStrength_loop_last(_, _, _, _)
UltimateTensileStrength_loop_last(measurements, cross_section_area_mm2, i, max_stress) ==
    IF i > Len(measurements) THEN max_stress
    ELSE LET m == measurements[i]
         IN  IF hasattr(m, "forceN") /\ RGt(m.forceN, I(0))
             THEN UltimateTensileStrength_loop_last(measurements, cross_section_area_mm2,
                      i + 1, RDiv(m.forceN, cross_section_area_mm2))
             ELSE UltimateTensileStrength_loop_last(measurements, cross_section_area_mm2,
                      i + 1, max_stress)

(* Variant that looks at the material: a reading of another material than *)
(* self's is passed over.                                                  *)
RECURSIVE UltimateTensileStrength_loop_own_material(_, _, _, _, _)
UltimateTensileStrength_loop_own_material(self, measurements, cross_section_area_mm2, i, max_stress) ==
    IF i > Len(measurements) THEN max_stress
    ELSE LET m == measurements[i]
         IN  IF hasattr(m, "forceN") /\ RGt(m.forceN, I(0))
                /\ hasattr(m, "materialId") /\ m.materialId = self.materialId
             THEN LET stress == RDiv(m.forceN, cross_section_area_mm2)
                  IN  UltimateTensileStrength_loop_own_material(self, measurements,
                          cross_section_area_mm2, i + 1,
                          IF RGt(stress, max_stress) THEN stress ELSE max_stress)
             ELSE UltimateTensileStrength_loop_own_material(self, measurements,
                      cross_section_area_mm2, i + 1, max_stress)

UltimateTensileStrength_calculate_from_own_measurements(self, measurements, cross_section_area_mm2) ==
    IF measurements = <<>> \/ RLe(cross_section_area_mm2, I(0))
    THEN Returned(self, "utsMPa")
    ELSE Returned(SetAttrs(self,
             [utsMPa |-> UltimateTensileStrength_loop_own_material(self, measurements,
                             cross_section_area_mm2, 1, I(0))]), "utsMPa")

(* max_stress = 0.0; for m: if hasattr(m,'forceN') and m.forceN > 0: ...    *)
RECURSIVE UltimateTensileStrength_loop(_, _, _, _)
UltimateTensileStrength_loop(measurements, cross_section_area_mm2, i, max_stress) ==
    IF i > Len(measurements) THEN max_stress
    ELSE LET m == measurements[i]
         IN  IF hasattr(m, "forceN") /\ RGt(m.forceN, I(0))
             THEN LET stress == RDiv(m.forceN, cross_section_area_mm2)
                  IN  UltimateTensileStrength_loop(measurements, cross_section_area_mm2,
                          i + 1, IF RGt(stress, max_stress) THEN stress ELSE max_stress)
             ELSE UltimateTensileStrength_loop(measurements, cross_section_area_mm2,
                      i + 1, max_stress)

UltimateTensileStrength_calculate_from_measurements(self, measurements, cross_section_area_mm2) ==
    IF measurements = <<>> \/ RLe(cross_section_area_mm2, I(0))
    THEN Returned(self, "utsMPa")
    ELSE Returned(SetAttrs(self,
             [utsMPa |-> UltimateTensileStrength_loop(measurements,
                             cross_section_area_mm2, 1, I(0))]), "utsMPa")

(* Variant of the sort keyed by sequenceNumber instead of temperatureC.     *)
RECURSIVE InsertBySequenceNumber(_, _)
InsertBySequenceNumber(sorted, m) ==
    IF sorted = <<>> THEN <<m>>
    ELSE IF hasattr(m, "sequenceNumber") /\ hasattr(sorted[Len(sorted)], "sequenceNumber")
            /\ m.sequenceNumber < sorted[Len(sorted)].sequenceNumber
         THEN Append(InsertBySequenceNumber(SubSeq(sorted, 1, Len(sorted) - 1), m),
                     sorted[Len(sorted)])
         ELSE Append(sorted, m)

(* sorted(measurements, key=lambda m: m.temperatureC): a stable sort.      *)
RECURSIVE InsertByTemperature(_, _)
InsertByTemperature(sorted, m) ==
    IF sorted = <<>> THEN <<m>>
    ELSE IF RLt(m.temperatureC, sorted[Len(sorted)].temperatureC)
         THEN Append(InsertByTemperature(SubSeq(sorted, 1, Len(sorted) - 1), m),
                     sorted[Len(sorted)])
         ELSE Append(sorted, m)

(* Variant that takes the first and the last record of the list as given.  *)
Unsorted(measurements) == measurements

RECURSIVE SortedByTemperature(_)
SortedByTemperature(measurements) ==
    IF measurements = <<>> THEN <<>>
    ELSE InsertByTemperature(
             SortedByTemperature(SubSeq(measurements, 1, Len(measurements) - 1)),
             measurements[Len(measurements)])

CoefficientOfThermalExpansion_calculate_from_measurements(self, measurements, original_length_mm) ==
    IF measurements = <<>> \/ Len(measurements) < 2 \/ RLe(original_length_mm, I(0))
    THEN Returned(self, "ctePpmPerC")
    ELSE IF \E i \in 1..Len(measurements) : ~hasattr(measurements[i], "temperatureC")
    THEN Raised(self)
    ELSE LET sorted_measurements == SortedByTemperature(measurements)
             first == sorted_measurements[1]
             lst == sorted_measurements[Len(sorted_measurements)]
         IN  IF ~hasattr(lst, "dimensionChangeMicron")
                \/ ~hasattr(first, "dimensionChangeMicron")
             THEN Raised(self)
             ELSE LET delta_L == RSub(lst.dimensionChangeMicron, first.dimensionChangeMicron)
                      delta_T == RSub(lst.temperatureC, first.temperatureC)
                  IN  IF RGt(delta_T, I(0))
                      THEN Returned(SetAttrs(self,
                               [ctePpmPerC |->
                                    RMul(RDiv(RDiv(delta_L, RMul(original_length_mm, I(1000))),
                                              delta_T), I(1000000)),
                                temperatureRangeLowC |-> first.temperatureC,
                                temperatureRangeHighC |-> lst.temperatureC]), "ctePpmPerC")
                      ELSE Returned(self, "ctePpmPerC")

(***************************************************************************)
(* Owens-Wendt.  The square roots the method takes are irrational, so the  *)
(* float values it computes are kept exactly, as a rational plus a         *)
(* rational multiple of the square root of one square-free integer: the    *)
(* tuple <<n, d>> is the rational n/d as everywhere else, and the tuple    *)
(* <<n, d, qn, qd, k>> is the number n/d + (qn/qd) * sqrt(k).  For         *)
(* example <<53394, 425, 0 - 728, 1275, 27686>> is                         *)
(* 53394/425 - (728/1275) * sqrt(27686) = 30.6268824886...                 *)
(***************************************************************************)
RatPart(x) == <<x[1], x[2]>>

Coef(x) == IF Len(x) = 2 THEN I(0) ELSE <<x[3], x[4]>>

Rad(x) == IF Len(x) = 2 THEN 1 ELSE x[5]

(* The number p + q * sqrt(k), a plain rational when it is one. *)
Surd(p, q, k) ==
    IF q[1] = 0 THEN p
    ELSE IF k = 1 THEN RAdd(p, q)
    ELSE <<p[1], p[2], q[1], q[2], k>>

(* The square root under two operands; operands that both carry a root     *)
(* carry the same one.                                                     *)
CommonRad(a, b) == IF Rad(a) = 1 THEN Rad(b) ELSE Rad(a)

(* a + b, a - b and a * b on floats. *)
SAdd(a, b) == Surd(RAdd(RatPart(a), RatPart(b)), RAdd(Coef(a), Coef(b)), CommonRad(a, b))

SSub(a, b) == Surd(RSub(RatPart(a), RatPart(b)), RSub(Coef(a), Coef(b)), CommonRad(a, b))

SMul(a, b) ==
    LET k == CommonRad(a, b)
    IN  Surd(RAdd(RMul(RatPart(a), RatPart(b)), RMul(RMul(Coef(a), Coef(b)), I(k))),
             RAdd(RMul(RatPart(a), Coef(b)), RMul(RatPart(b), Coef(a))),
             k)

(* The largest integer whose square is at most n, by bisection over lo..hi. *)
RECURSIVE ISqrtIter(_, _, _)
ISqrtIter(n, lo, hi) ==
    IF lo >= hi THEN lo
    ELSE LET mid == (lo + hi + 1) \div 2
         IN  IF mid * mid <= n THEN ISqrtIter(n, mid, hi) ELSE ISqrtIter(n, lo, mid - 1)

(* The largest s with s * s dividing the positive integer n. *)
SquarePart(n) ==
    LET top == ISqrtIter(n, 1, IF n < 46340 THEN n ELSE 46340)
        S == {s \in 1..top : n % (s * s) = 0}
    IN  CHOOSE s \in S : \A t \in S : t <= s

(* math.sqrt(r) of a rational r >= 0: with n = sn^2 kn and d = sd^2 kd,    *)
(* sqrt(n/d) = (sn / (sd kd)) * sqrt(kn kd), exactly.                      *)
Sqrt(r) ==
    IF r[1] = 0 THEN I(0)
    ELSE LET sn == SquarePart(r[1])
             sd == SquarePart(r[2])
             kn == r[1] \div (sn * sn)
             kd == r[2] \div (sd * sd)
         IN  Surd(I(0), Rat(sn, sd * kd), kn * kd)

(* (x / (2 * math.sqrt(k))) ** 2 for a rational k > 0: the quotient by the *)
(* root of k lies outside the numbers above, its square is x * x / (4 * k). *)
SquareOfQuotientByTwiceRoot(x, k) == SMul(SMul(x, x), RDiv(I(1), RMul(I(4), k)))

(* Variant that adds the two components to the total stored before.        *)
CriticalSurfaceTension_owens_wendt_adding_to_stored(self, water_angle, diiodomethane_angle) ==
    LET cos_w == CosDeg(water_angle)
        cos_d == CosDeg(diiodomethane_angle)
        dispersiveComponent ==
            SquareOfQuotientByTwiceRoot(RMul(Rat(508, 10), RAdd(I(1), cos_d)), Rat(508, 10))
        numerator == SSub(RMul(Rat(728, 10), RAdd(I(1), cos_w)),
                          SMul(I(2), Sqrt(RMul(dispersiveComponent, Rat(218, 10)))))
        polarComponent == SquareOfQuotientByTwiceRoot(numerator, I(51))
        obj == SetAttrs(self,
                   [dispersiveComponent |-> dispersiveComponent,
                    polarComponent |-> polarComponent,
                    surfaceEnergyMNm |-> SAdd(self.surfaceEnergyMNm,
                                              SAdd(dispersiveComponent, polarComponent)),
                    calculationMethod |-> "Owens-Wendt"])
    IN  [obj |-> obj,
         ret |-> <<obj.surfaceEnergyMNm, obj.dispersiveComponent, obj.polarComponent>>,
         status |-> "ok"]

CriticalSurfaceTension_calculate_from_owens_wendt(self, water_angle, diiodomethane_angle) ==
    LET water_total == Rat(728, 10)
        water_d == Rat(218, 10)
        water_p == I(51)
        diio_total == Rat(508, 10)
        diio_d == Rat(508, 10)
        cos_w == CosDeg(water_angle)
        cos_d == CosDeg(diiodomethane_angle)
        dispersiveComponent ==
            SquareOfQuotientByTwiceRoot(RMul(diio_total, RAdd(I(1), cos_d)), diio_d)
        numerator == SSub(RMul(water_total, RAdd(I(1), cos_w)),
                          SMul(I(2), Sqrt(RMul(dispersiveComponent, water_d))))
        polarComponent == SquareOfQuotientByTwiceRoot(numerator, water_p)
        obj == SetAttrs(self,
                   [dispersiveComponent |-> dispersiveComponent,
                    polarComponent |-> polarComponent,
                    surfaceEnergyMNm |-> SAdd(dispersiveComponent, polarComponent),
                    calculationMethod |-> "Owens-Wendt"])
    IN  [obj |-> obj,
         ret |-> <<obj.surfaceEnergyMNm, obj.dispersiveComponent, obj.polarComponent>>,
         status |-> "ok"]

(***************************************************************************)
(* Helper methods of the raw-measurement classes.                          *)
(***************************************************************************)
(* Variant that returns the ratio without storing it on the reading.       *)
PycnometerMeasurement_calculate_without_storing(self) ==
    LET reference_mass == RSub(self.referenceWeight, self.emptyWeight)
        sample_mass == RSub(self.sampleWeight, self.emptyWeight)
    IN  IF RGt(reference_mass, I(0))
        THEN [obj |-> self, ret |-> <<RDiv(sample_mass, reference_mass)>>, status |-> "ok"]
        ELSE Returned(self, "specificGravityValue")

PycnometerMeasurement_calculate_specific_gravity(self) ==
    LET reference_mass == RSub(self.referenceWeight, self.emptyWeight)
        sample_mass == RSub(self.sampleWeight, self.emptyWeight)
    IN  IF RGt(reference_mass, I(0))
        THEN Returned(SetAttrs(self,
                 [specificGravityValue |-> RDiv(sample_mass, reference_mass)]),
                 "specificGravityValue")
        ELSE Returned(self, "specificGravityValue")

TensileMeasurement_calculate_engineering_stress(self) ==
    LET area == RMul(self.specimenWidth, self.specimenThickness)
    IN  [obj |-> self,
         ret |-> <<IF RGt(area, I(0)) THEN RDiv(self.forceN, area) ELSE I(0)>>,
         status |-> "ok"]

TensileMeasurement_calculate_engineering_strain(self) ==
    [obj |-> self,
     ret |-> <<IF RGt(self.gaugeLength, I(0))
               THEN RMul(RDiv(self.displacementMm, self.gaugeLength), I(100))
               ELSE I(0)>>,
     status |-> "ok"]

TMAMeasurement_calculate_strain_percent(self) ==
    [obj |-> self,
     ret |-> <<IF RGt(self.originalLengthMm, I(0))
               THEN RMul(RDiv(self.dimensionChangeMicron,
                              RMul(self.originalLengthMm, I(1000))), I(100))
               ELSE I(0)>>,
     status |-> "ok"]

(* if self.referenceDensity > 0 and self.densityValue > 0: store the ratio *)
DensityMeterMeasurement_calculate_specific_gravity(self) ==
    IF RGt(self.referenceDensity, I(0)) /\ RGt(self.densityValue, I(0))
    THEN Returned(SetAttrs(self,
             [specificGravityValue |-> RDiv(self.densityValue, self.referenceDensity)]),
             "specificGravityValue")
    ELSE Returned(self, "specificGravityValue")

(* The division of the float a by the float b inside a method of self: it  *)
(* raises ZeroDivisionError when b is 0.0 and nothing has been stored.     *)
HydrometerMeasurement_store_quotient(self, a, b) ==
    IF b[1] = 0
    THEN [obj |-> self, ret |-> <<>>, status |-> "ZeroDivisionError"]
    ELSE Returned(SetAttrs(self, [specificGravityValue |-> RDiv(a, b)]),
                  "specificGravityValue")

HydrometerMeasurement_convert_to_specific_gravity(self) ==
    CASE self.scaleType = "SG" ->
             Returned(SetAttrs(self, [specificGravityValue |-> self.scaleReading]),
                      "specificGravityValue")
      [] self.scaleType = "Baume_heavy" ->
             IF RLt(self.scaleReading, I(145))
             THEN HydrometerMeasurement_store_quotient(self, I(145),
                      RSub(I(145), self.scaleReading))
             ELSE Returned(self, "specificGravityValue")
      [] self.scaleType = "Baume_light" ->
             HydrometerMeasurement_store_quotient(self, I(140),
                 RAdd(I(130), self.scaleReading))
      [] self.scaleType = "API" ->
             HydrometerMeasurement_store_quotient(self, Rat(1415, 10),
                 RAdd(Rat(1315, 10), self.scaleReading))
      [] OTHER ->
             Returned(SetAttrs(self, [specificGravityValue |-> self.scaleReading]),
                      "specificGravityValue")

(* return math.sqrt(self.storageModulusPa**2 + self.lossModulusPa**2)       *)
StorageModulus_calculate_complex_modulus(self) ==
    [obj |-> self,
     ret |-> <<Sqrt(RAdd(RMul(self.storageModulusPa, self.storageModulusPa),
                         RMul(self.lossModulusPa, self.lossModulusPa)))>>,
     status |-> "ok"]

StorageModulus_calculate_loss_factor(self) ==
    IF RGt(self.storageModulusPa, I(0))
    THEN Returned(SetAttrs(self,
             [lossFactor |-> RDiv(self.lossModulusPa, self.storageModulusPa)]),
             "lossFactor")
    ELSE Returned(self, "lossFactor")

DMAGlassTransitionMeasurement_calculate_tan_delta(self) ==
    IF RGt(self.storageModulusPa, I(0))
    THEN Returned(SetAttrs(self,
             [tanDelta |-> RDiv(self.lossModulusPa, self.storageModulusPa)]),
             "tanDelta")
    ELSE Returned(self, "tanDelta")

DSCMeltingMeasurement_normalize_heat_flow(self) ==
    [obj |-> self,
     ret |-> <<IF RGt(self.sampleMassMg, I(0))
               THEN RDiv(self.heatFlowMW, self.sampleMassMg)
               ELSE I(0)>>,
     status |-> "ok"]

(* if self.leftAngle > 0 and self.rightAngle > 0: store their mean *)
ContactAngleMeasurement_calculate_average_angle(self) ==
    IF RGt(self.leftAngle, I(0)) /\ RGt(self.rightAngle, I(0))
    THEN Returned(SetAttrs(self,
             [contactAngle |-> RDiv(RAdd(self.leftAngle, self.rightAngle), I(2))]),
             "contactAngle")
    ELSE Returned(self, "contactAngle")

MeltingPointValue_calculate_crystallinity(self, reference_heat_of_fusion) ==
    IF RGt(reference_heat_of_fusion, I(0))
    THEN Returned(SetAttrs(self,
             [crystallinityPercent |->
                  RMul(RDiv(self.heatOfFusionJg, reference_heat_of_fusion), I(100))]),
             "crystallinityPercent")
    ELSE Returned(self, "crystallinityPercent")

(***************************************************************************)
(* The program state: a heap of objects of one property family, created by *)
(* the constructors, and the record of the last derivation call.           *)
(***************************************************************************)
NoCall == [op |-> "none", self |-> 0, ms |-> <<>>, arg |-> <<>>]

(* No earlier run has been kept for comparison. *)
NoRun == [op |-> "none"]

(* The package-level functions (register_materials_science_defaults,      *)
(* seed_initial_data, initialize) have not been called: module holds the  *)
(* position of the running function, its arguments and locals, the calls  *)
(* the manager has received, every instance constructed so far and the    *)
(* seed files that were looked for and not found.                          *)
NotInitialized ==
    [pc |-> "idle", entry |-> "", manager |-> "None", include_seed_data |-> FALSE,
     register_class |-> <<>>, registered_classes |-> <<>>,
     index |-> 0, records |-> <<>>, instances |-> <<>>, created |-> <<>>,
     constructed |-> <<>>, result |-> <<>>, raised |-> "",
     locals |-> <<>>, missing |-> {}]

HardnessFamily ==
    {<<HardnessScale("mat-1", v, "Shore A", I(23), "", ""),
       ShoreMeasurement("mat-1", "1", 1, I(60)),
       ShoreMeasurement("mat-2", "", 1, r)>> :
        <<v, r>> \in {I(0), I(50)} \X {I(75), I(0), I(0 - 5)}}

SpecificGravityFamily ==
    {<<ReferentialSpecificGravity("mat-1", v),
       PycnometerMeasurement("mat-1", "1", 1, I(10), I(20), I(35), Rat(5, 2)),
       x>> :
        <<v, x>> \in {I(0), I(2)} \X
            ({PycnometerMeasurement("mat-2", "7", 1, I(10), I(20), I(25), r) :
                  r \in {Rat(3, 2), I(0), I(0 - 1)}}
             \cup {ShoreMeasurement("mat-1", "1", 2, I(60))})}

SurfaceTensionFamily ==
    {<<SurfaceTensionValue("mat-1", v, "", I(20)),
       WilhelmyMeasurement("mat-1", "1", 1, I(2814), Rat(402, 10), I(0)),
       x>> :
        <<v, x>> \in {I(0), I(30)} \X
            ({WilhelmyMeasurement("mat-2", "", 1, f, Rat(402, 10), I(0)) :
                  f \in {I(2010), I(0), I(0 - 402)}}
             \cup {ShoreMeasurement("mat-1", "1", 2, I(60))})}

MFIFamily ==
    {<<MFIValue("mat-1", v, I(190), Rat(216, 100)),
       MFIMeasurement("mat-1", "1", 1, I(30), Rat(1, 2)),
       MFIMeasurement("mat-2", "", 1, c[1], c[2])>> :
        <<v, c>> \in {I(0), I(12)} \X
            {<<I(60), I(2)>>, <<I(0), I(2)>>, <<I(60), I(0 - 1)>>, <<I(0), I(0)>>}}

KrebsFamily ==
    {<<KrebsViscosity("mat-1", v),
       StormerViscosity("mat-1", "1", 1, I(100), I(100)),
       StormerViscosity("mat-2", "", 1, c[1], c[2])>> :
        <<v, c>> \in {I(0), I(90)} \X
            {<<I(200), I(50)>>, <<I(0), I(50)>>, <<I(200), I(0 - 10)>>, <<I(100), I(0)>>}}

TensileFamily ==
    {<<UltimateTensileStrength("mat-1", v),
       TensileMeasurement("mat-1", "1", 1, I(100)),
       TensileMeasurement("mat-2", "", 1, f),
       TensileMeasurement("mat-1", "1", 3, I(180))>> :
        <<v, f>> \in {I(0), I(40)} \X {I(250), I(0), I(0 - 50)}}

ThermalExpansionFamily ==
    {<<CoefficientOfThermalExpansion("mat-1", v, I(25), I(100)),
       TMAMeasurement("mat-1", "1", 1, I(25), I(0)),
       TMAMeasurement("mat-2", "", 1, I(125), I(50)),
       TMAMeasurement("mat-1", "1", 3, c[1], c[2])>> :
        <<v, c>> \in {I(0), I(7)} \X {<<I(25), I(10)>>, <<I(75), I(20)>>, <<I(125), I(40)>>}}

SurfaceEnergyFamily ==
    {<<CriticalSurfaceTension("mat-1", v, v, I(0), m),
       CriticalSurfaceTension("mat-2", I(0), I(0), I(0), "Zisman"),
       ContactAngleMeasurement("mat-1", "1", 1, I(60), I(58), I(62))>> :
        <<v, m>> \in {I(0), I(31)} \X {"Owens-Wendt", "Zisman"}}

Families ==
    HardnessFamily \cup SpecificGravityFamily \cup SurfaceTensionFamily \cup MFIFamily
        \cup KrebsFamily \cup TensileFamily \cup ThermalExpansionFamily
        \cup SurfaceEnergyFamily

(* The classes on whose instances each derivation method can be called: the *)
(* class that defines it and the raw-measurement classes that inherit it.   *)
Defines(op) ==
    CASE op = "HardnessScale.calculate_from_measurements" ->
             {"HardnessScale", "ShoreMeasurement"}
      [] op = "ReferentialSpecificGravity.calculate_from_measurements" ->
             {"ReferentialSpecificGravity"}
      [] op = "SurfaceTensionValue.calculate_from_measurements" ->
             {"SurfaceTensionValue", "WilhelmyMeasurement"}
      [] op = "MFIValue.calculate_from_measurements" ->
             {"MFIValue", "MFIMeasurement"}
      [] op = "KrebsViscosity.calculate_from_stormer_measurements" ->
             {"KrebsViscosity"}
      [] op = "UltimateTensileStrength.calculate_from_measurements" ->
             {"UltimateTensileStrength", "TensileMeasurement"}
      [] op = "CoefficientOfThermalExpansion.calculate_from_measurements" ->
             {"CoefficientOfThermalExpansion", "TMAMeasurement"}
      [] op = "CriticalSurfaceTension.calculate_from_owens_wendt" ->
             {"CriticalSurfaceTension", "ContactAngleMeasurement"}
      [] op = "PycnometerMeasurement.calculate_specific_gravity" ->
             {"PycnometerMeasurement"}
      [] op = "TensileMeasurement.calculate_engineering_stress" ->
             {"TensileMeasurement"}
      [] op = "TensileMeasurement.calculate_engineering_strain" ->
             {"TensileMeasurement"}
      [] op = "TMAMeasurement.calculate_strain_percent" ->
             {"TMAMeasurement"}
      [] op = "DensityMeterMeasurement.calculate_specific_gravity" ->
             {"DensityMeterMeasurement"}
      [] op = "HydrometerMeasurement.convert_to_specific_gravity" ->
             {"HydrometerMeasurement"}
      [] op = "StorageModulus.calculate_complex_modulus" ->
             {"StorageModulus", "DMAMeasurement", "RheometerMeasurement"}
      [] op = "StorageModulus.calculate_loss_factor" ->
             {"StorageModulus", "DMAMeasurement", "RheometerMeasurement"}
      [] op = "DMAGlassTransitionMeasurement.calculate_tan_delta" ->
             {"DMAGlassTransitionMeasurement"}
      [] op = "DSCMeltingMeasurement.normalize_heat_flow" ->
             {"DSCMeltingMeasurement"}
      [] op = "MeltingPointValue.calculate_crystallinity" ->
             {"MeltingPointValue", "DSCMeltingMeasurement"}
      [] op = "ContactAngleMeasurement.calculate_average_angle" ->
             {"ContactAngleMeasurement"}

Ids == DOMAIN heap

Targets(op) == {t \in Ids : heap[t].cls \in Defines(op)}

(* The lists a caller can pass: any objects of the heap, each at most once, *)
(* in any order, the target included.                                      *)
Collections ==
    UNION {{ms \in [1..n -> Ids] : \A i, j \in 1..n : ms[i] = ms[j] => i = j} :
               n \in 0..MaxLen}

Objects(h, ms) == [i \in 1..Len(ms) |-> h[ms[i]]]

Areas == {I(10), I(0), I(0 - 2)}

Lengths == {I(10), I(0)}

Angles == {I(0), I(60), I(120), I(180)}

(* The caller is outside any call and has calls left to make. *)
CanCall == last = NoCall /\ ncalls < MaxCalls

(* Variant of a call that also writes every field it changed on the target *)
(* back to each record of the list that carries that field.                *)
CallWritingBack(op, self, ms, arg, r) ==
    /\ pre' = heap
    /\ heap' = [id \in DOMAIN heap |->
                   IF id = self THEN r.obj
                   ELSE IF id \in {ms[i] : i \in DOMAIN ms}
                   THEN [a \in DOMAIN heap[id] |->
                            IF a \in DOMAIN heap[self] /\ r.obj[a] # heap[self][a]
                            THEN r.obj[a] ELSE heap[id][a]]
                   ELSE heap[id]]
    /\ last' = [op |-> op, self |-> self, ms |-> ms, arg |-> arg]
    /\ ret' = r.ret
    /\ status' = r.status
    /\ ncalls' = ncalls + 1
    /\ prev' = prev
    /\ module' = module

(* The effect of a call on the program state: the method runs to its       *)
(* return or raise.                                                        *)
Call(op, self, ms, arg, r) ==
    /\ pre' = heap
    /\ heap' = [heap EXCEPT ![self] = r.obj]
    /\ last' = [op |-> op, self |-> self, ms |-> ms, arg |-> arg]
    /\ ret' = r.ret
    /\ status' = r.status
    /\ ncalls' = ncalls + 1
    /\ prev' = prev
    /\ module' = module

CalculateHardness ==
    /\ CanCall
    /\ \E self \in Targets("HardnessScale.calculate_from_measurements"), ms \in Collections :
           Call("HardnessScale.calculate_from_measurements", self, ms, <<>>,
                HardnessScale_calculate_from_measurements(heap[self], Objects(heap, ms)))

CalculateSpecificGravity ==
    /\ CanCall
    /\ \E self \in Targets("ReferentialSpecificGravity.calculate_from_measurements"),
          ms \in Collections :
           Call("ReferentialSpecificGravity.calculate_from_measurements", self, ms, <<>>,
                ReferentialSpecificGravity_calculate_from_measurements(heap[self],
                    Objects(heap, ms)))

CalculateSurfaceTension ==
    /\ CanCall
    /\ \E self \in Targets("SurfaceTensionValue.calculate_from_measurements"),
          ms \in Collections :
           Call("SurfaceTensionValue.calculate_from_measurements", self, ms, <<>>,
                SurfaceTensionValue_calculate_from_measurements(heap[self],
                    Objects(heap, ms)))

CalculateMFI ==
    /\ CanCall
    /\ \E self \in Targets("MFIValue.calculate_from_measurements"), ms \in Collections :
           Call("MFIValue.calculate_from_measurements", self, ms, <<>>,
                MFIValue_calculate_from_measurements(heap[self], Objects(heap, ms)))

CalculateKrebs ==
    /\ CanCall
    /\ \E self \in Targets("KrebsViscosity.calculate_from_stormer_measurements"),
          ms \in Collections :
           Call("KrebsViscosity.calculate_from_stormer_measurements", self, ms, <<>>,
                KrebsViscosity_calculate_from_stormer_measurements(heap[self],
                    Objects(heap, ms)))

CalculateUTS ==
    /\ CanCall
    /\ \E self \in Targets("UltimateTensileStrength.calculate_from_measurements"),
          ms \in Collections, area \in Areas :
           Call("UltimateTensileStrength.calculate_from_measurements", self, ms, <<area>>,
                UltimateTensileStrength_calculate_from_measurements(heap[self],
                    Objects(heap, ms), area))

CalculateCTE ==
    /\ CanCall
    /\ \E self \in Targets("CoefficientOfThermalExpansion.calculate_from_measurements"),
          ms \in Collections, len \in Lengths :
           Call("CoefficientOfThermalExpansion.calculate_from_measurements", self, ms,
                <<len>>,
                CoefficientOfThermalExpansion_calculate_from_measurements(heap[self],
                    Objects(heap, ms), len))

CalculateOwensWendt ==
    /\ CanCall
    /\ \E self \in Targets("CriticalSurfaceTension.calculate_from_owens_wendt"),
          water_angle \in Angles, diiodomethane_angle \in Angles :
           Call("CriticalSurfaceTension.calculate_from_owens_wendt", self, <<>>,
                <<water_angle, diiodomethane_angle>>,
                CriticalSurfaceTension_calculate_from_owens_wendt(heap[self],
                    water_angle, diiodomethane_angle))

CalculatePycnometerSpecificGravity ==
    /\ CanCall
    /\ \E self \in Targets("PycnometerMeasurement.calculate_specific_gravity") :
           Call("PycnometerMeasurement.calculate_specific_gravity", self, <<>>, <<>>,
                PycnometerMeasurement_calculate_specific_gravity(heap[self]))

CalculateEngineeringStress ==
    /\ CanCall
    /\ \E self \in Targets("TensileMeasurement.calculate_engineering_stress") :
           Call("TensileMeasurement.calculate_engineering_stress", self, <<>>, <<>>,
                TensileMeasurement_calculate_engineering_stress(heap[self]))

CalculateEngineeringStrain ==
    /\ CanCall
    /\ \E self \in Targets("TensileMeasurement.calculate_engineering_strain") :
           Call("TensileMeasurement.calculate_engineering_strain", self, <<>>, <<>>,
                TensileMeasurement_calculate_engineering_strain(heap[self]))

CalculateStrainPercent ==
    /\ CanCall
    /\ \E self \in Targets("TMAMeasurement.calculate_strain_percent") :
           Call("TMAMeasurement.calculate_strain_percent", self, <<>>, <<>>,
                TMAMeasurement_calculate_strain_percent(heap[self]))

ReferenceHeats == {I(200), I(0), I(0 - 50)}

CalculateDensityMeterSpecificGravity ==
    /\ CanCall
    /\ \E self \in Targets("DensityMeterMeasurement.calculate_specific_gravity") :
           Call("DensityMeterMeasurement.calculate_specific_gravity", self, <<>>, <<>>,
                DensityMeterMeasurement_calculate_specific_gravity(heap[self]))

ConvertToSpecificGravity ==
    /\ CanCall
    /\ \E self \in Targets("HydrometerMeasurement.convert_to_specific_gravity") :
           Call("HydrometerMeasurement.convert_to_specific_gravity", self, <<>>, <<>>,
                HydrometerMeasurement_convert_to_specific_gravity(heap[self]))

CalculateLossFactor ==
    /\ CanCall
    /\ \E self \in Targets("StorageModulus.calculate_loss_factor") :
           Call("StorageModulus.calculate_loss_factor", self, <<>>, <<>>,
                StorageModulus_calculate_loss_factor(heap[self]))

CalculateTanDelta ==
    /\ CanCall
    /\ \E self \in Targets("DMAGlassTransitionMeasurement.calculate_tan_delta") :
           Call("DMAGlassTransitionMeasurement.calculate_tan_delta", self, <<>>, <<>>,
                DMAGlassTransitionMeasurement_calculate_tan_delta(heap[self]))

NormalizeHeatFlow ==
    /\ CanCall
    /\ \E self \in Targets("DSCMeltingMeasurement.normalize_heat_flow") :
           Call("DSCMeltingMeasurement.normalize_heat_flow", self, <<>>, <<>>,
                DSCMeltingMeasurement_normalize_heat_flow(heap[self]))

CalculateCrystallinity ==
    /\ CanCall
    /\ \E self \in Targets("MeltingPointValue.calculate_crystallinity"),
          reference_heat_of_fusion \in ReferenceHeats :
           Call("MeltingPointValue.calculate_crystallinity", self, <<>>,
                <<reference_heat_of_fusion>>,
                MeltingPointValue_calculate_crystallinity(heap[self],
                    reference_heat_of_fusion))

CalculateAverageAngle ==
    /\ CanCall
    /\ \E self \in Targets("ContactAngleMeasurement.calculate_average_angle") :
           Call("ContactAngleMeasurement.calculate_average_angle", self, <<>>, <<>>,
                ContactAngleMeasurement_calculate_average_angle(heap[self]))

CalculateComplexModulus ==
    /\ CanCall
    /\ \E self \in Targets("StorageModulus.calculate_complex_modulus") :
           Call("StorageModulus.calculate_complex_modulus", self, <<>>, <<>>,
                StorageModulus_calculate_complex_modulus(heap[self]))

(* The caller takes the returned value (or catches the exception) and     *)
(* drops the argument list; the objects stay as the call left them.        *)
Return ==
    /\ last # NoCall
    /\ last' = NoCall
    /\ pre' = <<>>
    /\ ret' = <<>>
    /\ status' = "idle"
    /\ UNCHANGED <<heap, ncalls, prev, module>>

Init ==
    /\ heap \in Families
    /\ pre = <<>>
    /\ last = NoCall
    /\ ret = <<>>
    /\ status = "init"
    /\ ncalls = 0
    /\ prev = NoRun
    /\ module = NotInitialized

Next ==
    \/ CalculateHardness
    \/ CalculateSpecificGravity
    \/ CalculateSurfaceTension
    \/ CalculateMFI
    \/ CalculateKrebs
    \/ CalculateUTS
    \/ CalculateCTE
    \/ CalculateOwensWendt
    \/ CalculatePycnometerSpecificGravity
    \/ CalculateEngineeringStress
    \/ CalculateEngineeringStrain
    \/ CalculateStrainPercent
    \/ Return

Spec == Init /\ [][Next]_vars

(***************************************************************************)
(* Two runs side by side.  The caller keeps a full record of one completed *)
(* call (the target and the records as they were, the arguments, the       *)
(* outcome) and goes on making calls, on heaps that hold twin objects with *)
(* equal fields, so that a later call can reach the same method with an    *)
(* equal target and equal records in another context.                      *)
(***************************************************************************)
TwinFamilies ==
    {<<KrebsViscosity("mat-1", v),
       StormerViscosity("mat-1", "1", 1, I(200), g),
       KrebsViscosity("mat-1", w)>> :
        <<v, w, g>> \in {I(0), I(90)} \X {I(0), I(90)} \X {I(50), I(0)}}
    \cup
    {<<CriticalSurfaceTension("mat-1", v, v, I(0), m),
       CriticalSurfaceTension("mat-1", I(0), I(0), I(0), "Zisman")>> :
        <<v, m>> \in {I(0), I(31)} \X {"Owens-Wendt", "Zisman"}}
    \cup
    {<<HardnessScale("mat-1", v, "Shore A", I(23), "", ""),
       ShoreMeasurement("mat-1", "1", 1, r),
       HardnessScale("mat-1", w, "Shore A", I(23), "", "")>> :
        <<v, w, r>> \in {I(0), I(50)} \X {I(0), I(50)} \X {I(60), I(0)}}
    \cup
    {<<MFIValue("mat-1", v, I(190), Rat(216, 100)),
       MFIMeasurement("mat-1", "1", 1, I(30), m),
       MFIValue("mat-1", I(12), I(190), Rat(216, 100))>> :
        <<v, m>> \in {I(0), I(12)} \X {Rat(1, 2), I(0)}}
    \cup
    {<<ReferentialSpecificGravity("mat-1", v),
       PycnometerMeasurement("mat-1", "1", 1, I(10), I(20), I(35), r),
       ReferentialSpecificGravity("mat-1", I(2))>> :
        <<v, r>> \in {I(0), I(2)} \X {Rat(5, 2), I(0)}}
    \cup
    {<<SurfaceTensionValue("mat-1", v, "", I(20)),
       WilhelmyMeasurement("mat-1", "1", 1, f, Rat(402, 10), I(0)),
       SurfaceTensionValue("mat-1", I(30), "", I(20))>> :
        <<v, f>> \in {I(0), I(30)} \X {I(2814), I(0)}}
    \cup
    {<<UltimateTensileStrength("mat-1", v),
       TensileMeasurement("mat-1", "1", 1, f),
       UltimateTensileStrength("mat-1", I(40))>> :
        <<v, f>> \in {I(0), I(40)} \X {I(250), I(0 - 50)}}
    \cup
    {<<TMAMeasurement("mat-1", "1", 1, I(25), I(0)),
       TMAMeasurement("mat-1", "1", 2, t, I(50)),
       TMAMeasurement("mat-1", "1", 1, I(25), I(0))>> :
        t \in {I(125), I(25)}}

(* The caller takes the result and keeps the whole call for comparison.    *)
Remember ==
    /\ last # NoCall
    /\ prev = NoRun
    /\ prev' = [op |-> last.op, self |-> last.self, target |-> pre[last.self],
                records |-> Objects(pre, last.ms), arg |-> last.arg,
                ret |-> ret, status |-> status, obj |-> heap[last.self],
                ms |-> last.ms, heap |-> pre]
    /\ last' = NoCall
    /\ pre' = <<>>
    /\ ret' = <<>>
    /\ status' = "idle"
    /\ UNCHANGED <<heap, ncalls, module>>

InitTwoRuns ==
    /\ heap \in TwinFamilies
    /\ pre = <<>>
    /\ last = NoCall
    /\ ret = <<>>
    /\ status = "init"
    /\ ncalls = 0
    /\ prev = NoRun
    /\ module = NotInitialized

NextTwoRuns == Next \/ Remember

SpecTwoRuns == InitTwoRuns /\ [][NextTwoRuns]_vars

(***************************************************************************)
(* Purposes, devices and resolutions.  Their constructors read class       *)
(* constants through self, so each constructor operator takes the class of *)
(* the object under construction (cls) and looks the constant up along the *)
(* chain of base classes, nearest declaration first.  Characters outside   *)
(* ASCII in string defaults are written as \u escapes.                     *)
(***************************************************************************)
Base(cls) ==
    CASE cls = "PurposeCategory" -> "MaterialPurpose"
      [] cls = "CNCMachinable" -> "PurposeCategory"
      [] cls = "MoldFabricationPurpose" -> "PurposeCategory"
      [] cls = "CNCMachinedMoldMaterial" -> "MoldFabricationPurpose"
      [] cls = "MilledMoldMaterial" -> "CNCMachinedMoldMaterial"
      [] cls = "GeopolymerConcreteMoldMaterial" -> "MoldFabricationPurpose"
      [] cls = "DeviceCategory" -> "MaterialRelatedDevice"
      [] cls = "CNCMill" -> "DeviceCategory"
      [] cls = "ThreeAxisMill" -> "CNCMill"
      [] cls = "ResolutionCategory" -> "MaterialResolution"
      [] cls = "ExperimentalResolution" -> "ResolutionCategory"
      [] cls = "ContinuumResolution" -> "ResolutionCategory"
      [] cls = "MesoscaleResolution" -> "ResolutionCategory"
      [] cls = "AtomisticResolution" -> "ResolutionCategory"
      [] cls = "QuantumResolution" -> "ResolutionCategory"
      [] cls = "ChosenMaterial" -> "ContinuumResolution"
      [] cls = "DensityFunctionalMaterial" -> "QuantumResolution"

RECURSIVE PURPOSE_CATEGORY(_)
PURPOSE_CATEGORY(cls) ==
    CASE cls = "MaterialPurpose" -> ""
      [] cls = "PurposeCategory" -> "category"
      [] cls = "CNCMachinable" -> "cnc_machinable"
      [] cls = "MoldFabricationPurpose" -> "mold_fabrication"
      [] cls = "GeopolymerConcreteMoldMaterial" -> "geopolymer_concrete_mold"
      [] OTHER -> PURPOSE_CATEGORY(Base(cls))

RECURSIVE DEVICE_CATEGORY(_)
DEVICE_CATEGORY(cls) ==
    CASE cls = "MaterialRelatedDevice" -> ""
      [] cls = "DeviceCategory" -> "category"
      [] cls = "CNCMill" -> "cnc_mill"
      [] OTHER -> DEVICE_CATEGORY(Base(cls))

RECURSIVE RESOLUTION_LEVEL(_)
RESOLUTION_LEVEL(cls) ==
    CASE cls = "MaterialResolution" -> "None"
      [] cls = "ExperimentalResolution" -> 0
      [] cls = "ContinuumResolution" -> 1
      [] cls = "MesoscaleResolution" -> 2
      [] cls = "AtomisticResolution" -> 3
      [] cls = "QuantumResolution" -> 4
      [] OTHER -> RESOLUTION_LEVEL(Base(cls))

RECURSIVE RESOLUTION_CATEGORY(_)
RESOLUTION_CATEGORY(cls) ==
    CASE cls = "MaterialResolution" -> ""
      [] cls = "ExperimentalResolution" -> "experimental"
      [] cls = "ContinuumResolution" -> "continuum"
      [] cls = "MesoscaleResolution" -> "mesoscale"
      [] cls = "AtomisticResolution" -> "atomistic"
      [] cls = "QuantumResolution" -> "quantum"
      [] OTHER -> RESOLUTION_CATEGORY(Base(cls))

MaterialPurpose(cls, materialId, name, description, purposeCategory) ==
    [cls |-> cls, materialId |-> materialId, name |-> name,
     description |-> description,
     purposeCategory |-> IF purposeCategory # "" THEN purposeCategory ELSE PURPOSE_CATEGORY(cls)]

(* Variant that hands the caller's category description on to the base     *)
(* constructor as the purpose category.                                    *)
PurposeCategory_forwarding_description(cls, materialId, name, description, categoryDescription) ==
    SetAttrs(MaterialPurpose(cls, materialId, name, description, categoryDescription),
             [categoryDescription |-> categoryDescription])

PurposeCategory(cls, materialId, name, description, categoryDescription) ==
    SetAttrs(MaterialPurpose(cls, materialId, name, description, ""),
             [categoryDescription |-> categoryDescription])

CNCMachinable(cls, materialId, name, description) ==
    SetAttrs(PurposeCategory(cls, materialId, name, description,
                             "CNC machinability conditions"),
             [deviceId |-> "", deviceName |-> "", isMachinable |-> TRUE,
              machiningMethod |-> "milling", hardnessLimit |-> I(0),
              materialHardness |-> I(0), spindlePowerRequired |-> I(0),
              spindlePowerAvailable |-> I(0),
              rigidityRequired |-> "standard", minSpindleSpeed |-> 0,
              maxSpindleSpeed |-> 0, deviceSpindleSpeedRange |-> "",
              feedRateRange |-> "", abrasiveness |-> "medium",
              chipCharacteristic |-> "breaking",
              heatSensitivity |-> "medium", workHardeningRate |-> "none",
              coolantRequired |-> FALSE, coolantType |-> "",
              specialToolingRequired |-> FALSE,
              specialToolingDescription |-> "", enclosureRequired |-> FALSE,
              dustExtractionRequired |-> FALSE, limitingFactors |-> "",
              notes |-> ""])

MoldFabricationPurpose(cls, materialId, name, description, categoryDescription, fabricationMethod, minFeatureSize, surfaceFinishRa, dimensionalAccuracy, thermalStabilityMax, releaseAngleMin, expectedMoldLife, postProcessingRequired) ==
    SetAttrs(PurposeCategory(cls, materialId, name, description,
                             categoryDescription),
             [fabricationMethod |-> fabricationMethod,
              minFeatureSize |-> minFeatureSize,
              surfaceFinishRa |-> surfaceFinishRa,
              dimensionalAccuracy |-> dimensionalAccuracy,
              thermalStabilityMax |-> thermalStabilityMax,
              releaseAngleMin |-> releaseAngleMin,
              expectedMoldLife |-> expectedMoldLife,
              postProcessingRequired |-> postProcessingRequired])

CNCMachinedMoldMaterial(cls, materialId, name, description, minFeatureSize, surfaceFinishRa, dimensionalAccuracy, thermalStabilityMax, machiningOperation, machinabilityForMold, toolWearRate, dustGeneration) ==
    SetAttrs(MoldFabricationPurpose(cls, materialId, name, description,
                                    "Fine-resolution composite mold creation",
                                    "cnc_machining", minFeatureSize,
                                    surfaceFinishRa, dimensionalAccuracy,
                                    thermalStabilityMax, I(0), 0, ""),
             [machiningOperation |-> machiningOperation,
              machinabilityForMold |-> machinabilityForMold,
              toolWearRate |-> toolWearRate, chipFormation |-> "",
              dustGeneration |-> dustGeneration, coolantCompatibility |-> "",
              workHoldingMethod |-> "", internalStressRelief |-> FALSE,
              finishPassStrategy |-> ""])

MilledMoldMaterial(cls, materialId, name, description) ==
    SetAttrs(CNCMachinedMoldMaterial(cls, materialId, name, description,
                                     Rat(1, 10), Rat(8, 5), Rat(1, 50),
                                     I(100), "milling", I(0), "medium",
                                     "medium"),
             [cuttingSpeedForMold |-> I(0), feedPerToothForMold |-> I(0),
              stepoverForFinish |-> I(10), depthOfCutFinish |-> Rat(1, 10),
              toolTypeForMold |-> "ball", toolMaterialForMold |-> "carbide",
              toolCoatingForMold |-> "", spindleSpeedForMold |-> I(0),
              climbVsConventional |-> "climb",
              restMachiningStrategy |-> "pencil"])

GeopolymerConcreteMoldMaterial(cls, materialId, name, description) ==
    SetAttrs(MoldFabricationPurpose(cls, materialId, name, description,
                                    "Geopolymer concrete mold casting",
                                    "geopolymer_casting", I(1), I(6),
                                    Rat(1, 2), I(300), I(3), 50,
                                    "Surface sealing, sanding if needed"),
             [binderType |-> "metakaolin",
              activatorType |-> "sodium_silicate",
              activatorToBinderRatio |-> Rat(1, 2),
              waterToSolidsRatio |-> Rat(3, 10),
              silicateToHydroxideRatio |-> Rat(5, 2),
              aggregateType |-> "sand", aggregateSize |-> I(2),
              aggregateToBinderRatio |-> I(2), aggregateSource |-> "",
              mixingMethod |-> "drill_mixer", potLife |-> I(30),
              pouringViscosity |-> "medium", vibrationRequired |-> TRUE,
              moldReleaseAgent |-> "", curingMethod |-> "ambient",
              curingTemperature |-> I(25), curingTime |-> I(24),
              fullCureTime |-> 7,
              curingHumidity |-> "covered to retain moisture",
              compressiveStrength |-> I(40), flexuralStrength |-> I(5),
              shrinkageDuringCure |-> Rat(1, 2), porosity |-> "moderate",
              chemicalResistance |-> "Good acid and chemical resistance",
              phResistance |-> "3-14", waterAbsorption |-> I(5),
              formType |-> "", formReusable |-> TRUE,
              surfaceSealerRequired |-> TRUE, surfaceSealer |-> ""])

MaterialRelatedDevice(cls, name, description, deviceCategory) ==
    [cls |-> cls, name |-> name, description |-> description,
     deviceCategory |-> IF deviceCategory # "" THEN deviceCategory ELSE DEVICE_CATEGORY(cls),
     manufacturer |-> "", model |-> "", serialNumber |-> "", location |-> "",
     status |-> "operational", acquisitionDate |-> "",
     lastCalibrationDate |-> "", notes |-> ""]

DeviceCategory(cls, name, description, categoryDescription) ==
    SetAttrs(MaterialRelatedDevice(cls, name, description, ""),
             [categoryDescription |-> categoryDescription])

CNCMill(cls, name, description, manufacturer, model, axisCount, workEnvelopeX, workEnvelopeY, workEnvelopeZ, spindlePower, spindleSpeedMin, spindleSpeedMax, spindleTaper, positioningAccuracy, repeatability, toolChangerType, toolCapacity, hasCoolantSystem, coolantType, controllerBrand, controllerModel) ==
    SetAttrs(DeviceCategory(cls, name, description, "CNC milling machine"),
             [manufacturer |-> manufacturer, model |-> model,
              axisCount |-> axisCount, workEnvelopeX |-> workEnvelopeX,
              workEnvelopeY |-> workEnvelopeY,
              workEnvelopeZ |-> workEnvelopeZ, spindlePower |-> spindlePower,
              spindleSpeedMin |-> spindleSpeedMin,
              spindleSpeedMax |-> spindleSpeedMax,
              spindleTaper |-> spindleTaper, spindleTorqueMax |-> I(0),
              rapidTraverseX |-> I(0), rapidTraverseY |-> I(0),
              rapidTraverseZ |-> I(0), feedRateMax |-> I(0),
              positioningAccuracy |-> positioningAccuracy,
              repeatability |-> repeatability,
              toolChangerType |-> toolChangerType,
              toolCapacity |-> toolCapacity, maxToolDiameter |-> I(0),
              maxToolLength |-> I(0), hasCoolantSystem |-> hasCoolantSystem,
              coolantType |-> coolantType, coolantPressure |-> I(0),
              tableSize |-> "", tableLoadCapacity |-> I(0),
              hasRotaryTable |-> FALSE, controllerBrand |-> controllerBrand,
              controllerModel |-> controllerModel, hasEnclosure |-> TRUE,
              hasDustExtraction |-> FALSE])

ThreeAxisMill(cls, name, description) ==
    CNCMill(cls, name, description, "", "", 3, I(0), I(0), I(0), I(0), 0, 0,
            "", I(0), I(0), "manual", 0, TRUE, "flood", "", "")

MaterialResolution(cls, materialId, name, description) ==
    [cls |-> cls, materialId |-> materialId, name |-> name,
     description |-> description, resolutionLevel |-> RESOLUTION_LEVEL(cls),
     resolutionCategory |-> RESOLUTION_CATEGORY(cls)]

ResolutionCategory(cls, materialId, name, description, categoryDescription, scaleRange, typicalMethods) ==
    SetAttrs(MaterialResolution(cls, materialId, name, description),
             [categoryDescription |-> categoryDescription,
              scaleRange |-> scaleRange, typicalMethods |-> typicalMethods])

ExperimentalResolution(cls, materialId, name, description, categoryDescription) ==
    SetAttrs(ResolutionCategory(cls, materialId, name, description,
                                categoryDescription, "mm-m",
                                "Physical testing, ASTM/ISO standards"),
             [resolutionLevel |-> RESOLUTION_LEVEL(cls),
              resolutionCategory |-> RESOLUTION_CATEGORY(cls)])

(* Variant that takes the category from the caller's category description. *)
ContinuumResolution_category_from_description(cls, materialId, name, description, categoryDescription) ==
    SetAttrs(ResolutionCategory(cls, materialId, name, description,
                                categoryDescription, "\\u00c2\\u00b5m-mm",
                                "FEM, FEA, structural analysis"),
             [resolutionLevel |-> RESOLUTION_LEVEL(cls),
              resolutionCategory |-> categoryDescription])

ContinuumResolution(cls, materialId, name, description, categoryDescription) ==
    SetAttrs(ResolutionCategory(cls, materialId, name, description,
                                categoryDescription, "\\u00c2\\u00b5m-mm",
                                "FEM, FEA, structural analysis"),
             [resolutionLevel |-> RESOLUTION_LEVEL(cls),
              resolutionCategory |-> RESOLUTION_CATEGORY(cls)])

MesoscaleResolution(cls, materialId, name, description, categoryDescription) ==
    SetAttrs(ResolutionCategory(cls, materialId, name, description,
                                categoryDescription, "nm-\\u00c2\\u00b5m",
                                "CGMD, Martini, DPD"),
             [resolutionLevel |-> RESOLUTION_LEVEL(cls),
              resolutionCategory |-> RESOLUTION_CATEGORY(cls)])

AtomisticResolution(cls, materialId, name, description, categoryDescription) ==
    SetAttrs(ResolutionCategory(cls, materialId, name, description,
                                categoryDescription, "\\u00c3\\u2026-nm",
                                "MD, LAMMPS, GROMACS, NAMD"),
             [resolutionLevel |-> RESOLUTION_LEVEL(cls),
              resolutionCategory |-> RESOLUTION_CATEGORY(cls)])

QuantumResolution(cls, materialId, name, description, categoryDescription) ==
    SetAttrs(ResolutionCategory(cls, materialId, name, description,
                                categoryDescription, "\\u00c5",
                                "DFT, VASP, Gaussian, QE"),
             [resolutionLevel |-> RESOLUTION_LEVEL(cls),
              resolutionCategory |-> RESOLUTION_CATEGORY(cls)])

ChosenMaterial(cls, materialId, name, description) ==
    SetAttrs(ContinuumResolution(cls, materialId, name, description,
                                 "Continuum mechanics representation for FEM simulations"),
             [selectionCriteria |-> "", conditionRange |-> "",
              alternativeIds |-> <<>>, selectionRationale |-> "",
              youngsModulus |-> I(0), poissonsRatio |-> I(0),
              density |-> I(0)])

DensityFunctionalMaterial(cls, materialId, name, description) ==
    SetAttrs(QuantumResolution(cls, materialId, name, description,
                               "DFT simulation with explicit electrons"),
             [functional |-> "pbe", basisSet |-> "", electronCount |-> 0,
              structureFile |-> "", pseudopotentials |-> "",
              kPointMesh |-> ""])

(***************************************************************************)
(* Construction.  A caller builds one entity of any class with keyword     *)
(* arguments of its choice (kw), in or out of physical range, and then     *)
(* calls the methods its class offers.                                     *)
(***************************************************************************)
(* type(self).__name__ of the object a constructor call returns.           *)
New(cls, obj) == SetAttrs(obj, [cls |-> cls])

GivenMaterialIds == {"", "mat-1"}

GivenParentIds == {"", "no-such-id"}

GivenSequenceNumbers == {0, 1}

GivenValues == {I(0 - 5), I(0), I(60)}

PycnometerWeights ==
    {<<I(10), I(20), I(35)>>, <<I(10), I(10), I(35)>>, <<I(10), I(20), I(5)>>}

DensityReadings ==
    {<<Rat(5, 2), I(1)>>, <<Rat(9, 10), Rat(4, 5)>>, <<I(0), I(1)>>, <<I(2), I(0)>>}

ScaleReadings ==
    {<<"SG", Rat(21, 20)>>, <<"Baume_heavy", I(29)>>, <<"Baume_heavy", I(145)>>,
     <<"Baume_light", I(10)>>, <<"Baume_light", I(0 - 130)>>,
     <<"Baume_light", I(0 - 140)>>, <<"API", I(10)>>, <<"API", Rat(0 - 1315, 10)>>,
     <<"Brix", Rat(3, 2)>>}

Construction(cls, kw, obj) == [cls |-> cls, kw |-> kw, obj |-> New(cls, obj)]

CategoryConstructions ==
    {Construction("MaterialProperty", [name |-> n], MaterialProperty(n, "")) :
         n \in {"", "density"}}
    \cup {Construction("PropertyCategory", [materialId |-> m],
                       PropertyCategory("Property Category",
                           "Base category for material properties", m, "")) : m \in GivenMaterialIds}
    \cup {Construction("MechanicalProperty", [materialId |-> m],
                       MechanicalProperty("Mechanical Property",
                           "Property relating to strength and resistance under applied forces", m)) : m \in GivenMaterialIds}
    \cup {Construction("RheologicalProperty", [materialId |-> m],
                       RheologicalProperty("Rheological Property",
                           "Property relating to flow and deformation of matter", m)) : m \in GivenMaterialIds}
    \cup {Construction("SurfaceProperty", [materialId |-> m],
                       SurfaceProperty("Surface Property",
                           "Property relating to interfacial phenomena between materials", m)) : m \in GivenMaterialIds}
    \cup {Construction("ThermalProperty", [materialId |-> m],
                       ThermalProperty("Thermal Property",
                           "Property relating to temperature-dependent behavior of materials", m)) : m \in GivenMaterialIds}

ConceptConstructions ==
    {Construction("Hardness", [materialId |-> m], Hardness("Hardness",
                           "Material resistance to localized plastic deformation", m)) :
         m \in GivenMaterialIds}
    \cup {Construction("SpecificGravity", [materialId |-> m], SpecificGravity("Specific Gravity",
                           "Ratio of substance density to reference substance density", m)) :
              m \in GivenMaterialIds}
    \cup {Construction("LiquidSurfaceTension", [materialId |-> m],
                       LiquidSurfaceTension("Liquid Surface Tension",
                           "Cohesive force at liquid-air interface", m)) : m \in GivenMaterialIds}
    \cup {Construction("MeltFlowIndex", [materialId |-> m], MeltFlowIndex("Melt Flow Index",
                           "Measure of thermoplastic melt flow under standard conditions", m)) :
              m \in GivenMaterialIds}
    \cup {Construction("Viscosity", [materialId |-> m], Viscosity("Viscosity",
                           "Measure of a fluid's resistance to flow", m)) :
              m \in GivenMaterialIds}
    \cup {Construction("TensileStrength", [materialId |-> m], TensileStrength("Tensile Strength",
                           "Maximum stress material can withstand while being stretched", m)) :
              m \in GivenMaterialIds}
    \cup {Construction("ThermalExpansion", [materialId |-> m], ThermalExpansion("Thermal Expansion",
                           "Dimensional change of material with temperature", m)) :
              m \in GivenMaterialIds}
    \cup {Construction("SolidSurfaceEnergy", [materialId |-> m],
                       SolidSurfaceEnergy("Solid Surface Energy",
                           "Excess energy at solid surface compared to bulk", m)) : m \in GivenMaterialIds}
    \cup {Construction("Elasticity", [materialId |-> m], Elasticity("Elasticity",
                           "Material ability to return to original shape after deformation", m)) :
              m \in GivenMaterialIds}
    \cup {Construction("GlassTransition", [materialId |-> m], GlassTransition("Glass Transition",
                           "Temperature of glassy to rubbery state transition", m)) :
              m \in GivenMaterialIds}
    \cup {Construction("MeltingPoint", [materialId |-> m], MeltingPoint("Melting Point",
                           "Temperature at which solid transforms to liquid", m)) :
              m \in GivenMaterialIds}
    \cup {Construction("SmokingPoint", [materialId |-> m], SmokingPoint("Smoking Point",
                           "Temperature at which material produces visible smoke", m)) :
              m \in GivenMaterialIds}

DerivedValueConstructions ==
    {Construction("HardnessScale",
                  [materialId |-> m, hardnessValue |-> v, temperature |-> t],
                  HardnessScale(m, v, "Shore A", t, "", "")) :
         <<m, v, t>> \in GivenMaterialIds \X GivenValues \X {I(23), I(0 - 300)}}
    \cup {Construction("ReferentialSpecificGravity",
                       [materialId |-> m, specificGravityValue |-> v],
                       ReferentialSpecificGravity(m, v)) :
              <<m, v>> \in GivenMaterialIds \X GivenValues}
    \cup {Construction("SurfaceTensionValue",
                       [materialId |-> m, surfaceTensionMNm |-> v, temperature |-> t],
                       SurfaceTensionValue(m, v, "", t)) :
              <<m, v, t>> \in GivenMaterialIds \X GivenValues \X {I(20), I(0 - 300)}}
    \cup {Construction("MFIValue",
                       [materialId |-> m, mfiGramsPer10Min |-> v, testTemperature |-> t,
                        testLoad |-> l],
                       MFIValue(m, v, t, l)) :
              <<m, v, t, l>> \in GivenMaterialIds \X GivenValues \X {I(190), I(0 - 300)}
                                 \X {Rat(216, 100), I(0)}}
    \cup {Construction("KrebsViscosity", [materialId |-> m, viscosityKU |-> v],
                       KrebsViscosity(m, v)) :
              <<m, v>> \in GivenMaterialIds \X GivenValues}
    \cup {Construction("UltimateTensileStrength", [materialId |-> m, utsMPa |-> v],
                       UltimateTensileStrength(m, v)) :
              <<m, v>> \in GivenMaterialIds \X GivenValues}
    \cup {Construction("CoefficientOfThermalExpansion",
                       [materialId |-> m, ctePpmPerC |-> v, temperatureRangeLowC |-> lo,
                        temperatureRangeHighC |-> hi],
                       CoefficientOfThermalExpansion(m, v, lo, hi)) :
              <<m, v, lo, hi>> \in GivenMaterialIds \X GivenValues \X {I(25), I(0 - 300)}
                                   \X {I(100), I(0 - 400)}}
    \cup {Construction("CriticalSurfaceTension",
                       [materialId |-> m, surfaceEnergyMNm |-> v, dispersiveComponent |-> d,
                        polarComponent |-> q],
                       CriticalSurfaceTension(m, v, d, q, "Owens-Wendt")) :
              <<m, v, d, q>> \in GivenMaterialIds \X GivenValues \X {I(0), I(0 - 1)}
                                  \X {I(0), I(0 - 1)}}
    \cup {Construction("StorageModulus",
                       [materialId |-> m, storageModulusPa |-> g, lossModulusPa |-> l,
                        lossFactor |-> f],
                       StorageModulus(m, g, l, f)) :
              <<m, g, l, f>> \in GivenMaterialIds \X {I(200), I(0), I(0 - 10)}
                                  \X {I(50), I(0)} \X {I(0), Rat(1, 10)}}
    \cup {Construction("GlassTransitionTemp",
                       [materialId |-> m, tgCelsius |-> v, measurementMethod |-> mm,
                        heatingRate |-> h],
                       GlassTransitionTemp(m, v, mm, h)) :
              <<m, v, mm, h>> \in GivenMaterialIds \X GivenValues \X {"DSC", ""}
                                   \X {I(10), I(0)}}
    \cup {Construction("MeltingPointValue",
                       [materialId |-> m, meltingPointC |-> v, heatOfFusionJg |-> h,
                        crystallinityPercent |-> c],
                       MeltingPointValue(m, v, h, c)) :
              <<m, v, h, c>> \in GivenMaterialIds \X GivenValues \X {I(100), I(0)}
                                  \X {I(40), I(0 - 1)}}
    \cup {Construction("SmokingPointValue",
                       [materialId |-> m, smokingPointC |-> v, measurementMethod |-> mm,
                        heatingRate |-> h],
                       SmokingPointValue(m, v, mm, h)) :
              <<m, v, mm, h>> \in GivenMaterialIds \X GivenValues \X {"visual", ""}
                                   \X {I(5), I(0)}}

RawMeasurementConstructions ==
    {Construction("ShoreMeasurement",
                  [materialId |-> m, hardnessScaleId |-> p, sequenceNumber |-> k,
                   hardnessReading |-> v],
                  ShoreMeasurement(m, p, k, v)) :
         <<m, p, k, v>> \in GivenMaterialIds \X GivenParentIds \X GivenSequenceNumbers
                            \X GivenValues}
    \cup {Construction("PycnometerMeasurement",
                       [materialId |-> m, referentialSpecificGravityId |-> p,
                        sequenceNumber |-> k, emptyWeight |-> w[1], referenceWeight |-> w[2],
                        sampleWeight |-> w[3], specificGravityValue |-> v],
                       PycnometerMeasurement(m, p, k, w[1], w[2], w[3], v)) :
              <<m, p, k, w, v>> \in GivenMaterialIds \X GivenParentIds
                  \X GivenSequenceNumbers
                  \X {<<I(10), I(20), I(35)>>, <<I(10), I(10), I(35)>>,
                      <<I(0 - 10), I(0 - 20), I(0)>>}
                  \X {I(0), I(0 - 1)}}
    \cup {Construction("WilhelmyMeasurement",
                       [materialId |-> m, surfaceTensionValueId |-> p, sequenceNumber |-> k,
                        forceMN |-> f, platePerimeterMm |-> l, contactAngle |-> a],
                       WilhelmyMeasurement(m, p, k, f, l, a)) :
              <<m, p, k, f, l, a>> \in GivenMaterialIds \X GivenParentIds
                  \X GivenSequenceNumbers \X {I(2010), I(0 - 402)}
                  \X {Rat(402, 10), I(0), I(0 - 1)} \X {I(0), I(120)}}
    \cup {Construction("MFIMeasurement",
                       [materialId |-> m, mfiValueId |-> p, sequenceNumber |-> k,
                        extrusionTime |-> t, extrudateMass |-> g],
                       MFIMeasurement(m, p, k, t, g)) :
              <<m, p, k, t, g>> \in GivenMaterialIds \X GivenParentIds
                  \X GivenSequenceNumbers \X {I(30), I(0), I(0 - 30)}
                  \X {Rat(1, 2), I(0), I(0 - 1)}}
    \cup {Construction("StormerViscosity",
                       [materialId |-> m, krebsViscosityId |-> p, sequenceNumber |-> k,
                        revolutions |-> r, grams |-> g],
                       StormerViscosity(m, p, k, r, g)) :
              <<m, p, k, r, g>> \in GivenMaterialIds \X GivenParentIds
                  \X GivenSequenceNumbers \X {I(100), I(0)} \X {I(100), I(0 - 10)}}
    \cup {Construction("TensileMeasurement",
                       [materialId |-> m, utsId |-> p, sequenceNumber |-> k, forceN |-> f],
                       TensileMeasurement(m, p, k, f)) :
              <<m, p, k, f>> \in GivenMaterialIds \X GivenParentIds
                  \X GivenSequenceNumbers \X {I(250), I(0), I(0 - 50)}}
    \cup {Construction("TMAMeasurement",
                       [materialId |-> m, cteId |-> p, sequenceNumber |-> k,
                        temperatureC |-> t, dimensionChangeMicron |-> d],
                       TMAMeasurement(m, p, k, t, d)) :
              <<m, p, k, t, d>> \in GivenMaterialIds \X GivenParentIds
                  \X GivenSequenceNumbers \X {I(25), I(0 - 300)} \X {I(50), I(0 - 50)}}
    \cup {Construction("DensityMeterMeasurement",
                       [materialId |-> m, referentialSpecificGravityId |-> p,
                        sequenceNumber |-> k, densityValue |-> d[1],
                        specificGravityValue |-> v, referenceDensity |-> d[2]],
                       DensityMeterMeasurement(m, p, k, d[1], v, d[2])) :
              <<m, p, k, d, v>> \in GivenMaterialIds \X GivenParentIds
                  \X GivenSequenceNumbers \X DensityReadings \X {I(0), I(0 - 1)}}
    \cup {Construction("HydrometerMeasurement",
                       [materialId |-> m, referentialSpecificGravityId |-> p,
                        sequenceNumber |-> k, scaleReading |-> h[2],
                        specificGravityValue |-> v, scaleType |-> h[1]],
                       HydrometerMeasurement(m, p, k, h[2], v, h[1])) :
              <<m, p, k, h, v>> \in GivenMaterialIds \X GivenParentIds
                  \X GivenSequenceNumbers \X ScaleReadings \X {I(0), I(0 - 1)}}
    \cup {Construction("DMAMeasurement",
                       [materialId |-> m, storageModulusId |-> p, sequenceNumber |-> k,
                        storageModulusPa |-> g, lossModulusPa |-> l],
                       DMAMeasurement(m, p, k, g, l)) :
              <<m, p, k, g, l>> \in GivenMaterialIds \X GivenParentIds
                  \X GivenSequenceNumbers \X {I(200), I(0), I(0 - 10)} \X {I(50), I(0)}}
    \cup {Construction("RheometerMeasurement",
                       [materialId |-> m, storageModulusId |-> p, sequenceNumber |-> k,
                        storageModulusPa |-> g, lossModulusPa |-> l],
                       RheometerMeasurement(m, p, k, g, l)) :
              <<m, p, k, g, l>> \in GivenMaterialIds \X GivenParentIds
                  \X GivenSequenceNumbers \X {I(200), I(0), I(0 - 10)} \X {I(50), I(0)}}
    \cup {Construction("DMAGlassTransitionMeasurement",
                       [materialId |-> m, glassTransitionTempId |-> p, sequenceNumber |-> k,
                        storageModulusPa |-> g, lossModulusPa |-> l, tanDelta |-> t],
                       DMAGlassTransitionMeasurement(m, p, k, g, l, t)) :
              <<m, p, k, g, l, t>> \in GivenMaterialIds \X GivenParentIds
                  \X GivenSequenceNumbers \X {I(200), I(0), I(0 - 10)} \X {I(50)}
                  \X {I(0), Rat(1, 10)}}
    \cup {Construction("DSCMeltingMeasurement",
                       [materialId |-> m, meltingPointValueId |-> p, sequenceNumber |-> k,
                        heatFlowMW |-> f, sampleMassMg |-> g],
                       DSCMeltingMeasurement(m, p, k, f, g)) :
              <<m, p, k, f, g>> \in GivenMaterialIds \X GivenParentIds
                  \X GivenSequenceNumbers \X {I(20), I(0 - 20)} \X {I(10), I(0), I(0 - 5)}}
    \cup {Construction("SmokingPointMeasurement",
                       [materialId |-> m, smokingPointValueId |-> p, sequenceNumber |-> k,
                        observedTemperatureC |-> t, detectionMethod |-> d],
                       SmokingPointMeasurement(m, p, k, t, d)) :
              <<m, p, k, t, d>> \in GivenMaterialIds \X GivenParentIds
                  \X GivenSequenceNumbers \X GivenValues \X {"visual", ""}}
    \cup {Construction("ContactAngleMeasurement",
                       [materialId |-> m, surfaceEnergyId |-> p, sequenceNumber |-> k,
                        contactAngle |-> a[1], leftAngle |-> a[2], rightAngle |-> a[3]],
                       ContactAngleMeasurement(m, p, k, a[1], a[2], a[3])) :
              <<m, p, k, a>> \in GivenMaterialIds \X GivenParentIds
                  \X GivenSequenceNumbers
                  \X {<<I(60), I(58), I(64)>>, <<I(0), I(0), I(62)>>,
                      <<I(0 - 5), I(58), I(0 - 1)>>}}

PropertyConstructions ==
    CategoryConstructions \cup ConceptConstructions \cup DerivedValueConstructions
        \cup RawMeasurementConstructions

GivenCategories == {"", "coating", "cnc_machinable"}

PurposeConstructions ==
    {Construction("MaterialPurpose", [materialId |-> m, purposeCategory |-> c],
                  MaterialPurpose("MaterialPurpose", m, "", "", c)) :
         <<m, c>> \in GivenMaterialIds \X GivenCategories}
    \cup {Construction("PurposeCategory", [materialId |-> m, categoryDescription |-> c],
                       PurposeCategory("PurposeCategory", m, "Purpose Category", "", c)) :
              <<m, c>> \in GivenMaterialIds \X GivenCategories}
    \cup {Construction("CNCMachinable", [materialId |-> m, name |-> n],
                       CNCMachinable("CNCMachinable", m, n,
                           "Base machinability conditions for CNC processing")) :
              <<m, n>> \in GivenMaterialIds \X {"CNC Machinable", "coating"}}
    \cup {Construction("MoldFabricationPurpose",
                       [materialId |-> m, categoryDescription |-> c, fabricationMethod |-> f],
                       MoldFabricationPurpose("MoldFabricationPurpose", m,
                           "Mold Fabrication Purpose",
                           "Material suitability for mold fabrication", c, f,
                           I(0), I(0), I(0), I(0), I(0), 0, "")) :
              <<m, c, f>> \in GivenMaterialIds \X GivenCategories \X {"", "coating"}}
    \cup {Construction("CNCMachinedMoldMaterial",
                       [materialId |-> m, machiningOperation |-> f],
                       CNCMachinedMoldMaterial("CNCMachinedMoldMaterial", m,
                           "CNC Machined Mold Material",
                           "Composite suitable for CNC machined molds",
                           I(0), I(0), I(0), I(0), f, I(0), "medium", "medium")) :
              <<m, f>> \in GivenMaterialIds \X {"", "cnc_machinable"}}
    \cup {Construction("MilledMoldMaterial", [materialId |-> m, name |-> n],
                       MilledMoldMaterial("MilledMoldMaterial", m, n,
                           "Composite suitable for CNC milled molds")) :
              <<m, n>> \in GivenMaterialIds \X {"Milled Mold Material", "coating"}}
    \cup {Construction("GeopolymerConcreteMoldMaterial", [materialId |-> m, name |-> n],
                       GeopolymerConcreteMoldMaterial("GeopolymerConcreteMoldMaterial", m, n,
                           "Geopolymer concrete mold fabrication by casting")) :
              <<m, n>> \in GivenMaterialIds \X {"Geopolymer Concrete Mold", "coating"}}

DeviceConstructions ==
    {Construction("MaterialRelatedDevice", [name |-> n, deviceCategory |-> c],
                  MaterialRelatedDevice("MaterialRelatedDevice", n, "", c)) :
         <<n, c>> \in {"", "bench"} \X {"", "coating", "cnc_mill"}}
    \cup {Construction("DeviceCategory", [name |-> n, categoryDescription |-> c],
                       DeviceCategory("DeviceCategory", n, "", c)) :
              <<n, c>> \in {"Device Category", "bench"} \X {"", "cnc_mill"}}
    \cup {Construction("CNCMill", [name |-> n, axisCount |-> a, toolChangerType |-> t],
                       CNCMill("CNCMill", n, "", "", "", a, I(0), I(0), I(0), I(0), 0, 0,
                               "", I(0), I(0), t, 0, TRUE, "flood", "", "")) :
              <<n, a, t>> \in {"CNC Mill", "bench"} \X {3, 0} \X {"manual", "category"}}
    \cup {Construction("ThreeAxisMill", [name |-> n, description |-> d],
                       ThreeAxisMill("ThreeAxisMill", n, d)) :
              <<n, d>> \in {"3-Axis CNC Mill", "bench"} \X {"", "category"}}

ResolutionConstructions ==
    {Construction("MaterialResolution", [materialId |-> m, name |-> n],
                  MaterialResolution("MaterialResolution", m, n, "")) :
         <<m, n>> \in GivenMaterialIds \X {"", "quantum"}}
    \cup {Construction("ResolutionCategory", [materialId |-> m, categoryDescription |-> c],
                       ResolutionCategory("ResolutionCategory", m, "Resolution Category",
                           "Base category for material resolutions", c, "", "")) :
              <<m, c>> \in GivenMaterialIds \X {"", "quantum"}}
    \cup {Construction("ExperimentalResolution", [materialId |-> m, categoryDescription |-> c],
                       ExperimentalResolution("ExperimentalResolution", m, "Experimental Resolution",
                           "Real-world experimental measurement data", c)) :
              <<m, c>> \in GivenMaterialIds
                  \X {"Human-scale experimental measurements from laboratory tests", "quantum"}}
    \cup {Construction("ContinuumResolution", [materialId |-> m, categoryDescription |-> c],
                       ContinuumResolution("ContinuumResolution", m, "Continuum Resolution",
                           "Finite Element Method material definition", c)) :
              <<m, c>> \in GivenMaterialIds
                  \X {"Continuum mechanics representation for FEM simulations", "quantum"}}
    \cup {Construction("MesoscaleResolution", [materialId |-> m, categoryDescription |-> c],
                       MesoscaleResolution("MesoscaleResolution", m, "Mesoscale Resolution",
                           "Coarse-grained molecular dynamics representation", c)) :
              <<m, c>> \in GivenMaterialIds
                  \X {"CGMD simulation with grouped atom beads", "quantum"}}
    \cup {Construction("AtomisticResolution", [materialId |-> m, categoryDescription |-> c],
                       AtomisticResolution("AtomisticResolution", m, "Atomistic Resolution",
                           "Classical molecular dynamics representation", c)) :
              <<m, c>> \in GivenMaterialIds
                  \X {"Full atomistic MD simulation", "quantum"}}
    \cup {Construction("QuantumResolution", [materialId |-> m, categoryDescription |-> c],
                       QuantumResolution("QuantumResolution", m, "Quantum Resolution",
                           "Density functional theory representation", c)) :
              <<m, c>> \in GivenMaterialIds
                  \X {"DFT simulation with explicit electrons", "continuum"}}
    \cup {Construction("ChosenMaterial", [materialId |-> m, name |-> n],
                       ChosenMaterial("ChosenMaterial", m, n,
                           "Selected material for specific conditions")) :
              <<m, n>> \in GivenMaterialIds \X {"Chosen Material", "quantum"}}
    \cup {Construction("DensityFunctionalMaterial", [materialId |-> m, name |-> n],
                       DensityFunctionalMaterial("DensityFunctionalMaterial", m, n,
                           "Density functional theory representation")) :
              <<m, n>> \in GivenMaterialIds \X {"DFT Material", "continuum"}}

Constructions ==
    PropertyConstructions \cup PurposeConstructions \cup DeviceConstructions
        \cup ResolutionConstructions

(* A constructor call with keyword arguments kw: the constructor runs to   *)
(* its end and the caller holds the new object.                            *)
Construct ==
    /\ heap = <<>>
    /\ last = NoCall
    /\ \E c \in Constructions :
           /\ heap' = <<c.obj>>
           /\ last' = [op |-> "__init__", self |-> 1, ms |-> <<>>, arg |-> c.kw]
    /\ pre' = heap
    /\ ret' = <<>>
    /\ status' = "ok"
    /\ UNCHANGED <<ncalls, prev, module>>

InitConstruct ==
    /\ heap = <<>>
    /\ pre = <<>>
    /\ last = NoCall
    /\ ret = <<>>
    /\ status = "init"
    /\ ncalls = 0
    /\ prev = NoRun
    /\ module = NotInitialized

(* After the constructor call the caller may call any method of the new    *)
(* object.                                                                 *)
NextConstruct ==
    \/ Construct
    \/ Next
    \/ CalculateDensityMeterSpecificGravity
    \/ ConvertToSpecificGravity
    \/ CalculateComplexModulus
    \/ CalculateLossFactor
    \/ CalculateTanDelta
    \/ NormalizeHeatFlow
    \/ CalculateCrystallinity
    \/ CalculateAverageAngle

SpecConstruct == InitConstruct /\ [][NextConstruct]_vars

(***************************************************************************)
(* Vocabulary of the properties.                                           *)
(***************************************************************************)
MeanOps ==
    {"HardnessScale.calculate_from_measurements",
     "ReferentialSpecificGravity.calculate_from_measurements",
     "SurfaceTensionValue.calculate_from_measurements"}

AggregateOps ==
    MeanOps \cup
    {"MFIValue.calculate_from_measurements",
     "KrebsViscosity.calculate_from_stormer_measurements",
     "UltimateTensileStrength.calculate_from_measurements",
     "CoefficientOfThermalExpansion.calculate_from_measurements"}

(* The derived numeric field each aggregate method is documented to write. *)
DerivedAttr(op) ==
    CASE op = "HardnessScale.calculate_from_measurements" -> "hardnessValue"
      [] op = "ReferentialSpecificGravity.calculate_from_measurements" -> "specificGravityValue"
      [] op = "SurfaceTensionValue.calculate_from_measurements" -> "surfaceTensionMNm"
      [] op = "MFIValue.calculate_from_measurements" -> "mfiGramsPer10Min"
      [] op = "KrebsViscosity.calculate_from_stormer_measurements" -> "viscosityKU"
      [] op = "UltimateTensileStrength.calculate_from_measurements" -> "utsMPa"
      [] op = "CoefficientOfThermalExpansion.calculate_from_measurements" -> "ctePpmPerC"

(* The field of a record each arithmetic-mean method reads. *)
ReadingAttr(op) ==
    CASE op = "HardnessScale.calculate_from_measurements" -> "hardnessReading"
      [] op = "ReferentialSpecificGravity.calculate_from_measurements" -> "specificGravityValue"
      [] op = "SurfaceTensionValue.calculate_from_measurements" -> "surfaceTensionMNm"

Range(seq) == {seq[i] : i \in DOMAIN seq}

(* Sum and extrema of f over the positions in S, by set recursion. *)
RECURSIVE RSum(_, _)
RSum(S, f) ==
    IF S = {} THEN I(0)
    ELSE LET x == CHOOSE y \in S : TRUE IN RAdd(f[x], RSum(S \ {x}, f))

RMax(S, f) == f[CHOOSE x \in S : \A y \in S : RLe(f[y], f[x])]

RMin(S, f) == f[CHOOSE x \in S : \A y \in S : RLe(f[x], f[y])]

(* The seven aggregate methods and the Owens-Wendt method. *)
DerivationOps == AggregateOps \cup {"CriticalSurfaceTension.calculate_from_owens_wendt"}

(* A call has been made and not yet taken up by the caller. *)
InCall(ops) == last # NoCall /\ last.op \in ops

(* The records passed to that call, as they were when it was made. *)
Passed == Objects(pre, last.ms)

(* C1: for each of the seven aggregate derivation methods and every prior   *)
(* state of the target, a call with an empty collection returns the derived *)
(* value currently stored and changes no field of any object.              *)
C1_EmptyCollectionIsNoOp ==
    (InCall(AggregateOps) /\ last.ms = <<>>) =>
        /\ status = "ok"
        /\ ret = <<pre[last.self][DerivedAttr(last.op)]>>
        /\ heap = pre

C1_Witness ==
    /\ InCall({"KrebsViscosity.calculate_from_stormer_measurements"})
    /\ last.ms = <<>>
    /\ status = "ok"
    /\ ret = <<I(90)>>
    /\ pre[last.self].viscosityKU = I(90)

(* C2: for the arithmetic-mean derivations, whenever the collection holds   *)
(* at least one record whose reading field is present and > 0, the value    *)
(* stored after the call is the arithmetic mean of exactly those records'   *)
(* readings; records lacking the field or with a reading <= 0 add to        *)
(* neither the sum nor the count.                                          *)
C2_MeanOfValidReadings ==
    InCall(MeanOps) =>
        LET attr == ReadingAttr(last.op)
            valid == {i \in DOMAIN Passed :
                         hasattr(Passed[i], attr) /\ RGt(Passed[i][attr], I(0))}
            reading == [i \in valid |-> Passed[i][attr]]
        IN  valid # {} =>
                /\ status = "ok"
                /\ heap[last.self][DerivedAttr(last.op)] =
                       RDiv(RSum(valid, reading), I(Cardinality(valid)))

C2_Witness ==
    /\ InCall({"HardnessScale.calculate_from_measurements"})
    /\ last.self = 1
    /\ Range(last.ms) = {1, 2, 3}
    /\ ~hasattr(pre[1], "hardnessReading")
    /\ pre[2].hardnessReading = I(60)
    /\ pre[3].hardnessReading = I(0 - 5)
    /\ pre[1].hardnessValue = I(50)
    /\ heap[1].hardnessValue = I(60)

(* C3: no aggregate derivation method ever fails on bad or missing          *)
(* measurement data: for every collection of records, including records     *)
(* that lack the field the formula reads, the call completes normally.      *)
C3_NeverRaises ==
    InCall(AggregateOps) => status = "ok"

(* C4 as claimed: for a non-empty collection and cross_section_area_mm2 > 0 *)
(* the stored and returned utsMPa is the maximum of forceN / area over the  *)
(* readings (all records that carry a forceN).                             *)
C4_MaxOverAllReadings ==
    (InCall({"UltimateTensileStrength.calculate_from_measurements"})
     /\ last.ms # <<>> /\ RGt(last.arg[1], I(0))) =>
        LET readings == {i \in DOMAIN Passed : hasattr(Passed[i], "forceN")}
            stress == [i \in readings |-> RDiv(Passed[i].forceN, last.arg[1])]
        IN  readings # {} =>
                /\ heap[last.self].utsMPa = RMax(readings, stress)
                /\ ret = <<RMax(readings, stress)>>

(* C4 amended: for a non-empty collection with at least one reading whose   *)
(* forceN is present and > 0, and cross_section_area_mm2 > 0, the stored    *)
(* and returned utsMPa is the maximum of forceN / area over those readings; *)
(* with cross_section_area_mm2 <= 0 the stored utsMPa is returned unchanged.*)
C4_MaxOverPositiveReadings ==
    InCall({"UltimateTensileStrength.calculate_from_measurements"}) =>
        LET area == last.arg[1]
            readings == {i \in DOMAIN Passed :
                            hasattr(Passed[i], "forceN") /\ RGt(Passed[i].forceN, I(0))}
            stress == [i \in readings |-> RDiv(Passed[i].forceN, area)]
        IN  /\ (RGt(area, I(0)) /\ readings # {}) =>
                   /\ heap[last.self].utsMPa = RMax(readings, stress)
                   /\ ret = <<RMax(readings, stress)>>
            /\ RLe(area, I(0)) =>
                   /\ heap = pre
                   /\ ret = <<pre[last.self].utsMPa>>

C4_Witness ==
    /\ InCall({"UltimateTensileStrength.calculate_from_measurements"})
    /\ last.self = 1
    /\ last.arg = <<I(10)>>
    /\ Len(last.ms) = 3
    /\ Range(last.ms) = {2, 3, 4}
    /\ {pre[last.ms[i]].forceN : i \in 1..3} = {I(100), I(250), I(180)}
    /\ ret = <<I(25)>>
    /\ heap[1].utsMPa = I(25)

(* C5: KrebsViscosity.calculate_from_stormer_measurements normalizes every  *)
(* reading with grams > 0 and revolutions > 0 to grams * 200 / revolutions, *)
(* averages over those readings only and stores avg * 2.08 + 15.8;          *)
(* readings with grams <= 0 or revolutions <= 0 are not counted.           *)
C5_KrebsNormalizeThenMean ==
    (InCall({"KrebsViscosity.calculate_from_stormer_measurements"})
     /\ \A i \in DOMAIN Passed :
            hasattr(Passed[i], "grams") /\ hasattr(Passed[i], "revolutions")) =>
        LET counted == {i \in DOMAIN Passed :
                           RGt(Passed[i].grams, I(0)) /\ RGt(Passed[i].revolutions, I(0))}
            normalized == [i \in counted |->
                              RDiv(RMul(Passed[i].grams, I(200)), Passed[i].revolutions)]
        IN  counted # {} =>
                /\ status = "ok"
                /\ heap[last.self].viscosityKU =
                       RAdd(RMul(RDiv(RSum(counted, normalized),
                                      I(Cardinality(counted))), Rat(208, 100)),
                            Rat(158, 10))

C5_Witness ==
    /\ InCall({"KrebsViscosity.calculate_from_stormer_measurements"})
    /\ Len(last.ms) = 2
    /\ Range(last.ms) = {2, 3}
    /\ {<<pre[last.ms[i]].grams, pre[last.ms[i]].revolutions>> : i \in 1..2} =
           {<<I(100), I(100)>>, <<I(50), I(200)>>}
    /\ heap[last.self].viscosityKU = Rat(2758, 10)

(* C6: CoefficientOfThermalExpansion.calculate_from_measurements, given TMA *)
(* readings, is a no-op with fewer than two records, with no temperature    *)
(* difference between the lowest and the highest reading, or with           *)
(* original_length_mm <= 0; otherwise it takes a lowest- and a highest-     *)
(* temperature reading and stores (dL_high - dL_low) / (L0 * 1000) /        *)
(* (T_high - T_low) * 1e6.                                                 *)
C6_TwoEndpointSlope ==
    (InCall({"CoefficientOfThermalExpansion.calculate_from_measurements"})
     /\ \A i \in DOMAIN Passed :
            hasattr(Passed[i], "temperatureC")
            /\ hasattr(Passed[i], "dimensionChangeMicron")) =>
        LET L0 == last.arg[1]
            idx == DOMAIN Passed
            T == [i \in idx |-> Passed[i].temperatureC]
            self == last.self
        IN  IF Len(Passed) < 2 \/ RLe(L0, I(0)) \/ RMin(idx, T) = RMax(idx, T)
            THEN heap = pre /\ ret = <<pre[self].ctePpmPerC>>
            ELSE \E lo, hi \in idx :
                    /\ T[lo] = RMin(idx, T)
                    /\ T[hi] = RMax(idx, T)
                    /\ heap[self].ctePpmPerC =
                           RMul(RDiv(RDiv(RSub(Passed[hi].dimensionChangeMicron,
                                               Passed[lo].dimensionChangeMicron),
                                          RMul(L0, I(1000))),
                                     RSub(T[hi], T[lo])), I(1000000))
                    /\ ret = <<heap[self].ctePpmPerC>>

C6_Witness ==
    /\ InCall({"CoefficientOfThermalExpansion.calculate_from_measurements"})
    /\ last.self = 1
    /\ last.arg = <<I(10)>>
    /\ last.ms = <<3, 2>>
    /\ <<pre[3].temperatureC, pre[3].dimensionChangeMicron>> = <<I(125), I(50)>>
    /\ <<pre[2].temperatureC, pre[2].dimensionChangeMicron>> = <<I(25), I(0)>>
    /\ heap[1].ctePpmPerC = I(50)

(* The same records in another order: the permutations of a list.          *)
Reorderings(ms) ==
    {p \in [1..Len(ms) -> Range(ms)] : Range(p) = Range(ms)}

(* The sequenceNumber values a caller may hand out to the records.          *)
SequenceNumbers == {1, 2}

(* The records at ids ms of heap h, renumbered by n.                       *)
Renumbered(h, ms, n) ==
    [i \in 1..Len(ms) |-> SetAttrs(h[ms[i]], [sequenceNumber |-> n[ms[i]]])]

(* A CTE call that was handed TMA readings only.                           *)
CTECallOnTMAReadings ==
    /\ InCall({"CoefficientOfThermalExpansion.calculate_from_measurements"})
    /\ \A i \in DOMAIN Passed : Passed[i].cls = "TMAMeasurement"

(* The target as the call would leave it for the same readings in the      *)
(* order p and numbered by n.                                              *)
CTEOutcome(p, n) ==
    CoefficientOfThermalExpansion_calculate_from_measurements(
        pre[last.self], Renumbered(pre, p, n), last.arg[1]).obj

SameTemperatureRange(a, b) ==
    /\ a.temperatureRangeLowC = b.temperatureRangeLowC
    /\ a.temperatureRangeHighC = b.temperatureRangeHighC

(* C7 as claimed: for every collection of TMA readings, every permutation  *)
(* of the same readings and every assignment of sequenceNumber values      *)
(* yields the same ctePpmPerC and the same recorded temperature range.     *)
C7_PermutationInvariant ==
    CTECallOnTMAReadings =>
        \A p \in Reorderings(last.ms), n \in [Range(last.ms) -> SequenceNumbers] :
            /\ CTEOutcome(p, n).ctePpmPerC = heap[last.self].ctePpmPerC
            /\ SameTemperatureRange(CTEOutcome(p, n), heap[last.self])

(* C7 amended: every permutation of the same readings and every assignment *)
(* of sequenceNumber values yields the same recorded temperature range,    *)
(* and the same ctePpmPerC whenever the readings at the lowest temperature *)
(* all carry one dimensionChangeMicron and so do the readings at the       *)
(* highest temperature; for a given order the result never depends on      *)
(* sequenceNumber.                                                         *)
C7_PermutationInvariantWithoutTies ==
    CTECallOnTMAReadings =>
        LET idx == DOMAIN Passed
            T == [i \in idx |-> Passed[i].temperatureC]
            untied == \A i, j \in idx :
                          (T[i] = T[j] /\ T[i] \in {RMin(idx, T), RMax(idx, T)})
                              => Passed[i].dimensionChangeMicron =
                                     Passed[j].dimensionChangeMicron
        IN  \A n \in [Range(last.ms) -> SequenceNumbers] :
                /\ CTEOutcome(last.ms, n) = heap[last.self]
                /\ \A p \in Reorderings(last.ms) :
                       /\ SameTemperatureRange(CTEOutcome(p, n), heap[last.self])
                       /\ (idx # {} /\ untied) =>
                              CTEOutcome(p, n).ctePpmPerC = heap[last.self].ctePpmPerC

C7_Witness ==
    /\ CTECallOnTMAReadings
    /\ last.self = 1
    /\ last.arg = <<I(10)>>
    /\ last.ms = <<3, 4, 2>>
    /\ pre[4].temperatureC = I(75)
    /\ pre[1].temperatureRangeHighC = I(100)
    /\ heap[1].temperatureRangeHighC = I(125)
    /\ heap[1].ctePpmPerC = I(50)

(* The fields a derivation method assigns on the object it is called on.   *)
WrittenAttrs(op) ==
    IF op = "CoefficientOfThermalExpansion.calculate_from_measurements"
    THEN {"ctePpmPerC", "temperatureRangeLowC", "temperatureRangeHighC"}
    ELSE {DerivedAttr(op)}

(* C8 as claimed: a call to any of the seven aggregate derivation methods  *)
(* changes at most the single derived numeric field of the object it is    *)
(* called on; every other field of that object and every field of every    *)
(* input record is identical before and after the call.                    *)
C8_OnlyDerivedFieldChanges ==
    InCall(AggregateOps) =>
        /\ DOMAIN heap[last.self] = DOMAIN pre[last.self]
        /\ \A a \in DOMAIN pre[last.self] \ {DerivedAttr(last.op)} :
               heap[last.self][a] = pre[last.self][a]
        /\ \A i \in DOMAIN last.ms : heap[last.ms[i]] = pre[last.ms[i]]

(* C8 amended: a call to any of the seven aggregate derivation methods     *)
(* changes at most the derived numeric field of the object it is called    *)
(* on and, for CoefficientOfThermalExpansion, its temperatureRangeLowC and *)
(* temperatureRangeHighC; every other field of that object and every       *)
(* field of every other object, input records included, is identical       *)
(* before and after the call, and no field is added or removed.            *)
C8_OnlyWrittenFieldsOfTargetChange ==
    InCall(AggregateOps) =>
        /\ DOMAIN heap = DOMAIN pre
        /\ DOMAIN heap[last.self] = DOMAIN pre[last.self]
        /\ \A a \in DOMAIN pre[last.self] \ WrittenAttrs(last.op) :
               heap[last.self][a] = pre[last.self][a]
        /\ \A id \in DOMAIN pre \ {last.self} : heap[id] = pre[id]

C8_Witness ==
    /\ InCall({"CoefficientOfThermalExpansion.calculate_from_measurements"})
    /\ status = "ok"
    /\ last.self = 2
    /\ last.ms = <<2, 3>>
    /\ pre[2].ctePpmPerC = I(0)
    /\ pre[2].temperatureRangeHighC = I(100)
    /\ heap[2].ctePpmPerC = I(50)
    /\ heap[2].temperatureRangeHighC = I(125)
    /\ heap[3] = pre[3]

(* C9: on every path of every derivation method that returns (computed,    *)
(* all records skipped, empty input, guard failed) the value returned is   *)
(* the value held in the object's derived field right after the call; for  *)
(* calculate_from_owens_wendt the returned triple is (surfaceEnergyMNm,    *)
(* dispersiveComponent, polarComponent) of the object.                     *)
C9_ReturnsStoredValue ==
    (InCall(DerivationOps) /\ status = "ok") =>
        IF last.op = "CriticalSurfaceTension.calculate_from_owens_wendt"
        THEN ret = <<heap[last.self].surfaceEnergyMNm,
                     heap[last.self].dispersiveComponent,
                     heap[last.self].polarComponent>>
        ELSE ret = <<heap[last.self][DerivedAttr(last.op)]>>

(* An MFI call in which every record was skipped: the stored value comes   *)
(* back although the average computed is 0.                                *)
C9_Witness ==
    /\ InCall({"MFIValue.calculate_from_measurements"})
    /\ status = "ok"
    /\ last.ms # <<>>
    /\ \A i \in DOMAIN Passed : Passed[i].cls = "MFIMeasurement"
    /\ \A i \in DOMAIN Passed :
           RLe(Passed[i].extrudateMass, I(0)) \/ RLe(Passed[i].extrusionTime, I(0))
    /\ pre[last.self].mfiGramsPer10Min = I(12)
    /\ heap = pre
    /\ ret = <<I(12)>>

(* The method named op applied to a target and a list of records.          *)
Dispatch(op, self, records, arg) ==
    CASE op = "HardnessScale.calculate_from_measurements" ->
             HardnessScale_calculate_from_measurements(self, records)
      [] op = "ReferentialSpecificGravity.calculate_from_measurements" ->
             ReferentialSpecificGravity_calculate_from_measurements(self, records)
      [] op = "SurfaceTensionValue.calculate_from_measurements" ->
             SurfaceTensionValue_calculate_from_measurements(self, records)
      [] op = "MFIValue.calculate_from_measurements" ->
             MFIValue_calculate_from_measurements(self, records)
      [] op = "KrebsViscosity.calculate_from_stormer_measurements" ->
             KrebsViscosity_calculate_from_stormer_measurements(self, records)
      [] op = "UltimateTensileStrength.calculate_from_measurements" ->
             UltimateTensileStrength_calculate_from_measurements(self, records, arg[1])
      [] op = "CoefficientOfThermalExpansion.calculate_from_measurements" ->
             CoefficientOfThermalExpansion_calculate_from_measurements(self, records, arg[1])
      [] op = "CriticalSurfaceTension.calculate_from_owens_wendt" ->
             CriticalSurfaceTension_calculate_from_owens_wendt(self, arg[1], arg[2])
      [] op = "PycnometerMeasurement.calculate_specific_gravity" ->
             PycnometerMeasurement_calculate_specific_gravity(self)
      [] op = "TensileMeasurement.calculate_engineering_stress" ->
             TensileMeasurement_calculate_engineering_stress(self)
      [] op = "TensileMeasurement.calculate_engineering_strain" ->
             TensileMeasurement_calculate_engineering_strain(self)
      [] op = "TMAMeasurement.calculate_strain_percent" ->
             TMAMeasurement_calculate_strain_percent(self)
      [] op = "DensityMeterMeasurement.calculate_specific_gravity" ->
             DensityMeterMeasurement_calculate_specific_gravity(self)
      [] op = "HydrometerMeasurement.convert_to_specific_gravity" ->
             HydrometerMeasurement_convert_to_specific_gravity(self)
      [] op = "StorageModulus.calculate_complex_modulus" ->
             StorageModulus_calculate_complex_modulus(self)
      [] op = "StorageModulus.calculate_loss_factor" ->
             StorageModulus_calculate_loss_factor(self)
      [] op = "DMAGlassTransitionMeasurement.calculate_tan_delta" ->
             DMAGlassTransitionMeasurement_calculate_tan_delta(self)
      [] op = "DSCMeltingMeasurement.normalize_heat_flow" ->
             DSCMeltingMeasurement_normalize_heat_flow(self)
      [] op = "MeltingPointValue.calculate_crystallinity" ->
             MeltingPointValue_calculate_crystallinity(self, arg[1])
      [] op = "ContactAngleMeasurement.calculate_average_angle" ->
             ContactAngleMeasurement_calculate_average_angle(self)

(* The outcome of the call c (op, self, ms, arg) made on the heap h, and   *)
(* the heap it leaves.                                                     *)
Outcome(h, c) == Dispatch(c.op, h[c.self], Objects(h, c.ms), c.arg)

Effect(h, c) == [h EXCEPT ![c.self] = Outcome(h, c).obj]

(* The call in progress directly follows the remembered one, on another    *)
(* target, and neither target is in the other call's list.                 *)
IndependentCallAfterRemembered ==
    /\ last # NoCall
    /\ prev # NoRun
    /\ pre = [prev.heap EXCEPT ![prev.self] = prev.obj]
    /\ last.self # prev.self
    /\ last.self \notin Range(prev.ms)
    /\ prev.self \notin Range(last.ms)

(* C11: derivation calls on two distinct targets, neither of which is in   *)
(* the other call's list, commute: made in the other order from the same   *)
(* heap they end the same way and leave the same state of both targets and *)
(* of every record, also when the two lists overlap.                       *)
C11_IndependentCallsCommute ==
    IndependentCallAfterRemembered =>
        /\ heap = Effect(Effect(prev.heap, last), prev)
        /\ status = Outcome(prev.heap, last).status
        /\ prev.status = Outcome(Effect(prev.heap, last), prev).status

(* Two surface-tension calls over the same reading, each changing its own  *)
(* target.                                                                 *)
C11_Witness ==
    /\ IndependentCallAfterRemembered
    /\ last.op = "SurfaceTensionValue.calculate_from_measurements"
    /\ prev.op = "SurfaceTensionValue.calculate_from_measurements"
    /\ Range(prev.ms) \cap Range(last.ms) # {}
    /\ heap[prev.self] # prev.heap[prev.self]
    /\ heap[last.self] # prev.heap[last.self]
    /\ heap[last.self].surfaceTensionMNm = I(70)

(***************************************************************************)
(* Abstraction levels.  The ABSTRACTION_LEVEL class constants of the       *)
(* property families.                                                      *)
(***************************************************************************)
Hardness_ABSTRACTION_LEVEL == 1

HardnessScale_ABSTRACTION_LEVEL == 2

ShoreMeasurement_ABSTRACTION_LEVEL == 3

SpecificGravity_ABSTRACTION_LEVEL == 1

ReferentialSpecificGravity_ABSTRACTION_LEVEL == 2

PycnometerMeasurement_ABSTRACTION_LEVEL == 3

LiquidSurfaceTension_ABSTRACTION_LEVEL == 1

SurfaceTensionValue_ABSTRACTION_LEVEL == 2

WilhelmyMeasurement_ABSTRACTION_LEVEL == 3

MeltFlowIndex_ABSTRACTION_LEVEL == 1

MFIValue_ABSTRACTION_LEVEL == 2

MFIMeasurement_ABSTRACTION_LEVEL == 3

Viscosity_ABSTRACTION_LEVEL == 1

KrebsViscosity_ABSTRACTION_LEVEL == 2

StormerViscosity_ABSTRACTION_LEVEL == 3

TensileStrength_ABSTRACTION_LEVEL == 1

UltimateTensileStrength_ABSTRACTION_LEVEL == 2

TensileMeasurement_ABSTRACTION_LEVEL == 3

ThermalExpansion_ABSTRACTION_LEVEL == 1

CoefficientOfThermalExpansion_ABSTRACTION_LEVEL == 2

TMAMeasurement_ABSTRACTION_LEVEL == 3

SolidSurfaceEnergy_ABSTRACTION_LEVEL == 1

CriticalSurfaceTension_ABSTRACTION_LEVEL == 2

HydrometerMeasurement_ABSTRACTION_LEVEL == 3

DensityMeterMeasurement_ABSTRACTION_LEVEL == 3

Elasticity_ABSTRACTION_LEVEL == 1

StorageModulus_ABSTRACTION_LEVEL == 2

DMAMeasurement_ABSTRACTION_LEVEL == 3

RheometerMeasurement_ABSTRACTION_LEVEL == 3

GlassTransition_ABSTRACTION_LEVEL == 1

GlassTransitionTemp_ABSTRACTION_LEVEL == 2

DMAGlassTransitionMeasurement_ABSTRACTION_LEVEL == 3

MeltingPoint_ABSTRACTION_LEVEL == 1

MeltingPointValue_ABSTRACTION_LEVEL == 2

DSCMeltingMeasurement_ABSTRACTION_LEVEL == 3

SmokingPoint_ABSTRACTION_LEVEL == 1

SmokingPointValue_ABSTRACTION_LEVEL == 2

SmokingPointMeasurement_ABSTRACTION_LEVEL == 3

ContactAngleMeasurement_ABSTRACTION_LEVEL == 3

DeclaresAbstractionLevel ==
    {"Hardness",
     "HardnessScale",
     "ShoreMeasurement",
     "SpecificGravity",
     "ReferentialSpecificGravity",
     "PycnometerMeasurement",
     "LiquidSurfaceTension",
     "SurfaceTensionValue",
     "WilhelmyMeasurement",
     "MeltFlowIndex",
     "MFIValue",
     "MFIMeasurement",
     "Viscosity",
     "KrebsViscosity",
     "StormerViscosity",
     "TensileStrength",
     "UltimateTensileStrength",
     "TensileMeasurement",
     "ThermalExpansion",
     "CoefficientOfThermalExpansion",
     "TMAMeasurement",
     "SolidSurfaceEnergy",
     "CriticalSurfaceTension",
     "HydrometerMeasurement",
     "DensityMeterMeasurement",
     "Elasticity",
     "StorageModulus",
     "DMAMeasurement",
     "RheometerMeasurement",
     "GlassTransition",
     "GlassTransitionTemp",
     "DMAGlassTransitionMeasurement",
     "MeltingPoint",
     "MeltingPointValue",
     "DSCMeltingMeasurement",
     "SmokingPoint",
     "SmokingPointValue",
     "SmokingPointMeasurement",
     "ContactAngleMeasurement"}

(* type(self).ABSTRACTION_LEVEL *)
ABSTRACTION_LEVEL(cls) ==
    CASE cls = "Hardness" -> Hardness_ABSTRACTION_LEVEL
      [] cls = "HardnessScale" -> HardnessScale_ABSTRACTION_LEVEL
      [] cls = "ShoreMeasurement" -> ShoreMeasurement_ABSTRACTION_LEVEL
      [] cls = "SpecificGravity" -> SpecificGravity_ABSTRACTION_LEVEL
      [] cls = "ReferentialSpecificGravity" -> ReferentialSpecificGravity_ABSTRACTION_LEVEL
      [] cls = "PycnometerMeasurement" -> PycnometerMeasurement_ABSTRACTION_LEVEL
      [] cls = "LiquidSurfaceTension" -> LiquidSurfaceTension_ABSTRACTION_LEVEL
      [] cls = "SurfaceTensionValue" -> SurfaceTensionValue_ABSTRACTION_LEVEL
      [] cls = "WilhelmyMeasurement" -> WilhelmyMeasurement_ABSTRACTION_LEVEL
      [] cls = "MeltFlowIndex" -> MeltFlowIndex_ABSTRACTION_LEVEL
      [] cls = "MFIValue" -> MFIValue_ABSTRACTION_LEVEL
      [] cls = "MFIMeasurement" -> MFIMeasurement_ABSTRACTION_LEVEL
      [] cls = "Viscosity" -> Viscosity_ABSTRACTION_LEVEL
      [] cls = "KrebsViscosity" -> KrebsViscosity_ABSTRACTION_LEVEL
      [] cls = "StormerViscosity" -> StormerViscosity_ABSTRACTION_LEVEL
      [] cls = "TensileStrength" -> TensileStrength_ABSTRACTION_LEVEL
      [] cls = "UltimateTensileStrength" -> UltimateTensileStrength_ABSTRACTION_LEVEL
      [] cls = "TensileMeasurement" -> TensileMeasurement_ABSTRACTION_LEVEL
      [] cls = "ThermalExpansion" -> ThermalExpansion_ABSTRACTION_LEVEL
      [] cls = "CoefficientOfThermalExpansion" -> CoefficientOfThermalExpansion_ABSTRACTION_LEVEL
      [] cls = "TMAMeasurement" -> TMAMeasurement_ABSTRACTION_LEVEL
      [] cls = "SolidSurfaceEnergy" -> SolidSurfaceEnergy_ABSTRACTION_LEVEL
      [] cls = "CriticalSurfaceTension" -> CriticalSurfaceTension_ABSTRACTION_LEVEL
      [] cls = "HydrometerMeasurement" -> HydrometerMeasurement_ABSTRACTION_LEVEL
      [] cls = "DensityMeterMeasurement" -> DensityMeterMeasurement_ABSTRACTION_LEVEL
      [] cls = "Elasticity" -> Elasticity_ABSTRACTION_LEVEL
      [] cls = "StorageModulus" -> StorageModulus_ABSTRACTION_LEVEL
      [] cls = "DMAMeasurement" -> DMAMeasurement_ABSTRACTION_LEVEL
      [] cls = "RheometerMeasurement" -> RheometerMeasurement_ABSTRACTION_LEVEL
      [] cls = "GlassTransition" -> GlassTransition_ABSTRACTION_LEVEL
      [] cls = "GlassTransitionTemp" -> GlassTransitionTemp_ABSTRACTION_LEVEL
      [] cls = "DMAGlassTransitionMeasurement" -> DMAGlassTransitionMeasurement_ABSTRACTION_LEVEL
      [] cls = "MeltingPoint" -> MeltingPoint_ABSTRACTION_LEVEL
      [] cls = "MeltingPointValue" -> MeltingPointValue_ABSTRACTION_LEVEL
      [] cls = "DSCMeltingMeasurement" -> DSCMeltingMeasurement_ABSTRACTION_LEVEL
      [] cls = "SmokingPoint" -> SmokingPoint_ABSTRACTION_LEVEL
      [] cls = "SmokingPointValue" -> SmokingPointValue_ABSTRACTION_LEVEL
      [] cls = "SmokingPointMeasurement" -> SmokingPointMeasurement_ABSTRACTION_LEVEL
      [] cls = "ContactAngleMeasurement" -> ContactAngleMeasurement_ABSTRACTION_LEVEL

(* C12: every instance of each of the 39 classes that declare              *)
(* ABSTRACTION_LEVEL carries its own class's constant as abstractionLevel  *)
(* once its constructor has run (the parent constructors ran first), and   *)
(* still carries it after any derivation or helper-method call made on it. *)
C12_LevelIsOwnClassConstant ==
    \A id \in DOMAIN heap :
        heap[id].cls \in DeclaresAbstractionLevel =>
            /\ hasattr(heap[id], "abstractionLevel")
            /\ heap[id].abstractionLevel = ABSTRACTION_LEVEL(heap[id].cls)

(* A hydrometer reading, on which the constructor of SpecificGravity set   *)
(* level 1 before its own set 3, has had its scale reading converted and   *)
(* is still at level 3.                                                    *)
C12_Witness ==
    /\ InCall({"HydrometerMeasurement.convert_to_specific_gravity"})
    /\ heap[last.self] # pre[last.self]
    /\ heap[last.self].cls = "HydrometerMeasurement"
    /\ pre[last.self].abstractionLevel = HydrometerMeasurement_ABSTRACTION_LEVEL
    /\ heap[last.self].abstractionLevel = HydrometerMeasurement_ABSTRACTION_LEVEL


GenericClasses ==
    {"MaterialProperty", "PropertyCategory", "MechanicalProperty",
     "RheologicalProperty", "SurfaceProperty", "ThermalProperty"}

(* C13: every entity of the property hierarchy carries an abstractionLevel, *)
(* and an instance of MaterialProperty, PropertyCategory or one of the     *)
(* category classes carries abstractionLevel 0.                            *)
C13_GenericEntitiesAtLevelZero ==
    \A id \in DOMAIN heap :
        /\ hasattr(heap[id], "abstractionLevel")
        /\ (heap[id].cls \in GenericClasses => heap[id].abstractionLevel = 0)


(***************************************************************************)
(* Purpose and device categories.                                          *)
(***************************************************************************)
PurposeSubclasses ==
    {"PurposeCategory", "CNCMachinable", "MoldFabricationPurpose",
     "CNCMachinedMoldMaterial", "MilledMoldMaterial", "GeopolymerConcreteMoldMaterial"}

DeviceSubclasses == {"DeviceCategory", "CNCMill", "ThreeAxisMill"}

(* C14: an object of a purpose or device subclass carries, as               *)
(* purposeCategory / deviceCategory, the PURPOSE_CATEGORY / DEVICE_CATEGORY *)
(* constant declared nearest to its class, whatever arguments its          *)
(* constructor was given; an object of the generic base MaterialPurpose or *)
(* MaterialRelatedDevice carries the category the caller supplied when     *)
(* that is non-empty and the class constant otherwise.                     *)
C14_CategoryFromNearestClassConstant ==
    \A id \in DOMAIN heap :
        LET o == heap[id]
        IN  /\ o.cls \in PurposeSubclasses =>
                   o.purposeCategory = PURPOSE_CATEGORY(o.cls)
            /\ o.cls \in DeviceSubclasses =>
                   o.deviceCategory = DEVICE_CATEGORY(o.cls)
            /\ (o.cls = "MaterialPurpose" /\ InCall({"__init__"})) =>
                   o.purposeCategory =
                       IF last.arg.purposeCategory # "" THEN last.arg.purposeCategory
                       ELSE PURPOSE_CATEGORY("MaterialPurpose")
            /\ (o.cls = "MaterialRelatedDevice" /\ InCall({"__init__"})) =>
                   o.deviceCategory =
                       IF last.arg.deviceCategory # "" THEN last.arg.deviceCategory
                       ELSE DEVICE_CATEGORY("MaterialRelatedDevice")

C14_Witness ==
    /\ InCall({"__init__"})
    /\ heap[last.self].cls = "MoldFabricationPurpose"
    /\ last.arg.categoryDescription = "cnc_machinable"
    /\ last.arg.fabricationMethod = "coating"
    /\ heap[last.self].purposeCategory = "mold_fabrication"


(***************************************************************************)
(* Resolution levels.                                                      *)
(***************************************************************************)
(* The five simulation scales and their levels.                            *)
ScaleLevel ==
    [experimental |-> 0, continuum |-> 1, mesoscale |-> 2, atomistic |-> 3, quantum |-> 4]

GenericResolutionClasses == {"MaterialResolution", "ResolutionCategory"}

ScaleClasses ==
    {"ExperimentalResolution", "ContinuumResolution", "MesoscaleResolution",
     "AtomisticResolution", "QuantumResolution"}

LeafResolutionClasses == {"ChosenMaterial", "DensityFunctionalMaterial"}

ResolutionClasses == GenericResolutionClasses \cup ScaleClasses \cup LeafResolutionClasses

HasScalePair(o) ==
    /\ o.resolutionCategory \in DOMAIN ScaleLevel
    /\ o.resolutionLevel = ScaleLevel[o.resolutionCategory]

(* C15 as claimed: every resolution entity carries one of the five pairs   *)
(* (level, scale category).                                                *)
C15_EveryResolutionHasScalePair ==
    \A id \in DOMAIN heap :
        heap[id].cls \in ResolutionClasses => HasScalePair(heap[id])

(* C15 as the code has it: an object of a scale class carries the pair of  *)
(* that class's constants, an object of a leaf type the pair of the scale  *)
(* class it extends, each one of the five pairs and whatever the caller's  *)
(* arguments; an object of the generic bases MaterialResolution and        *)
(* ResolutionCategory carries no scale: level None and category "".        *)
C15_ScaleClassesCarryTheirPair ==
    \A id \in DOMAIN heap :
        LET o == heap[id]
            scale == IF o.cls \in LeafResolutionClasses THEN Base(o.cls) ELSE o.cls
        IN  /\ o.cls \in ScaleClasses \cup LeafResolutionClasses =>
                   /\ HasScalePair(o)
                   /\ scale \in ScaleClasses
                   /\ o.resolutionCategory = RESOLUTION_CATEGORY(scale)
                   /\ o.resolutionLevel = RESOLUTION_LEVEL(scale)
            /\ o.cls \in GenericResolutionClasses =>
                   /\ o.resolutionCategory = ""
                   /\ o.resolutionLevel = "None"

C15_Witness ==
    /\ InCall({"__init__"})
    /\ heap[last.self].cls = "ChosenMaterial"
    /\ last.arg.name = "quantum"
    /\ heap[last.self].resolutionCategory = "continuum"
    /\ heap[last.self].resolutionLevel = 1


(***************************************************************************)
(* Construction of raw measurements.                                       *)
(***************************************************************************)
Constructed(classes) == InCall({"__init__"}) /\ heap[last.self].cls \in classes

(* C16: a newly constructed MFIMeasurement carries, as mfiGramsPer10Min,   *)
(* extrudateMass / extrusionTime * 600 of its own two fields when          *)
(* extrusionTime > 0, and 0.0 otherwise; the constructor has no argument   *)
(* for the value and reads no collection.                                  *)
C16_EagerInstantaneousMFI ==
    Constructed({"MFIMeasurement"}) =>
        LET o == heap[last.self]
        IN  /\ o.extrusionTime = last.arg.extrusionTime
            /\ o.extrudateMass = last.arg.extrudateMass
            /\ "mfiGramsPer10Min" \notin DOMAIN last.arg
            /\ last.ms = <<>>
            /\ o.mfiGramsPer10Min =
                   IF RGt(o.extrusionTime, I(0))
                   THEN RMul(RDiv(o.extrudateMass, o.extrusionTime), I(600))
                   ELSE I(0)

C16_Witness ==
    /\ Constructed({"MFIMeasurement"})
    /\ heap[last.self].extrusionTime = I(30)
    /\ heap[last.self].extrudateMass = Rat(1, 2)
    /\ heap[last.self].mfiGramsPer10Min = I(10)


(***************************************************************************)
(* Owens-Wendt closed form, in exact arithmetic.                           *)
(***************************************************************************)
(* (50.8 (1 + cos d) / (2 sqrt 50.8))^2 = 50.8 (1 + cos d)^2 / 4 *)
ClosedFormDispersive(theta_d) ==
    LET c == RAdd(I(1), CosDeg(theta_d))
    IN  RDiv(RMul(Rat(508, 10), RMul(c, c)), I(4))

(* ((72.8 (1 + cos w) - 2 sqrt(dispersive 21.8)) / (2 sqrt 51.0))^2 *)
ClosedFormPolar(theta_w, dispersive) ==
    LET a == RMul(Rat(728, 10), RAdd(I(1), CosDeg(theta_w)))
        b == SMul(I(2), Sqrt(RMul(dispersive, Rat(218, 10))))
        numerator == SSub(a, b)
    IN  SMul(SMul(numerator, numerator), Rat(1, 204))

(* C17: calculate_from_owens_wendt stores the closed-form dispersive       *)
(* component of the diiodomethane angle, the closed-form polar component   *)
(* of the water angle and that dispersive component, and as total exactly  *)
(* their sum; all three are functions of the two angles alone, whatever    *)
(* the object held before the call.                                        *)
C17_OwensWendtClosedForm ==
    InCall({"CriticalSurfaceTension.calculate_from_owens_wendt"}) =>
        LET o == heap[last.self]
            theta_w == last.arg[1]
            theta_d == last.arg[2]
        IN  /\ status = "ok"
            /\ o.dispersiveComponent = ClosedFormDispersive(theta_d)
            /\ o.polarComponent = ClosedFormPolar(theta_w, o.dispersiveComponent)
            /\ o.surfaceEnergyMNm = SAdd(o.dispersiveComponent, o.polarComponent)
            /\ ret = <<o.surfaceEnergyMNm, o.dispersiveComponent, o.polarComponent>>

C17_Witness ==
    /\ InCall({"CriticalSurfaceTension.calculate_from_owens_wendt"})
    /\ last.arg = <<I(0), I(0)>>
    /\ pre[last.self].surfaceEnergyMNm = I(31)
    /\ pre[last.self].dispersiveComponent = I(31)
    /\ heap[last.self].dispersiveComponent = Rat(508, 10)
    /\ heap[last.self].polarComponent = <<53394, 425, 0 - 728, 1275, 27686>>
    /\ heap[last.self].surfaceEnergyMNm = <<74984, 425, 0 - 728, 1275, 27686>>


(***************************************************************************)
(* Parent references.                                                      *)
(***************************************************************************)
RawClasses ==
    {"ShoreMeasurement", "PycnometerMeasurement", "HydrometerMeasurement",
     "DensityMeterMeasurement", "WilhelmyMeasurement", "MFIMeasurement",
     "StormerViscosity", "TensileMeasurement", "TMAMeasurement", "DMAMeasurement",
     "RheometerMeasurement", "DMAGlassTransitionMeasurement", "DSCMeltingMeasurement",
     "SmokingPointMeasurement", "ContactAngleMeasurement"}

(* The field of a raw measurement that names its parent derived value.     *)
ParentRef(cls) ==
    CASE cls = "ShoreMeasurement" -> "hardnessScaleId"
      [] cls \in {"PycnometerMeasurement", "HydrometerMeasurement",
                  "DensityMeterMeasurement"} -> "referentialSpecificGravityId"
      [] cls = "WilhelmyMeasurement" -> "surfaceTensionValueId"
      [] cls = "MFIMeasurement" -> "mfiValueId"
      [] cls = "StormerViscosity" -> "krebsViscosityId"
      [] cls = "TensileMeasurement" -> "utsId"
      [] cls = "TMAMeasurement" -> "cteId"
      [] cls \in {"DMAMeasurement", "RheometerMeasurement"} -> "storageModulusId"
      [] cls = "DMAGlassTransitionMeasurement" -> "glassTransitionTempId"
      [] cls = "DSCMeltingMeasurement" -> "meltingPointValueId"
      [] cls = "SmokingPointMeasurement" -> "smokingPointValueId"
      [] cls = "ContactAngleMeasurement" -> "surfaceEnergyId"

ParentRefAttrs == {ParentRef(cls) : cls \in RawClasses}

(* What an object can be made to reference instead of what it references: *)
(* no material and a parent that does not exist, or another material and,  *)
(* as parent, the second object of the heap, whatever its type.            *)
GivenReferences == {<<"", "no-such-id">>, <<"mat-9", "2">>}

(* The object o referencing the material ref[1] and the parent ref[2].     *)
WithRefs(o, ref) ==
    [a \in DOMAIN o |-> IF a = "materialId" THEN ref[1]
                        ELSE IF a \in ParentRefAttrs THEN ref[2]
                        ELSE o[a]]

(* The records os, each referencing what refs gives for its position.      *)
WithRefsEach(os, refs) == [i \in DOMAIN os |-> WithRefs(os[i], refs[i])]

(* C18: the constructor of a raw measurement stores materialId and the     *)
(* parent reference as given, empty or naming nothing included; a          *)
(* derivation leaves the references of its target as they were, and its    *)
(* outcome (status, returned value, every other field of the target) is    *)
(* the same whatever material and parent the target and each record of the *)
(* list reference, each independently of the others.                       *)
C18_ParentReferencesAreSoft ==
    /\ \A c \in RawMeasurementConstructions :
           /\ c.cls \in RawClasses
           /\ c.obj.materialId = c.kw.materialId
           /\ c.obj[ParentRef(c.cls)] = c.kw[ParentRef(c.cls)]
    /\ InCall(DerivationOps) =>
           /\ \A a \in ({"materialId"} \cup ParentRefAttrs) \cap DOMAIN heap[last.self] :
                  heap[last.self][a] = pre[last.self][a]
           /\ \A ref \in GivenReferences, refs \in [DOMAIN Passed -> GivenReferences] :
                  LET out == Dispatch(last.op, WithRefs(pre[last.self], ref),
                                      WithRefsEach(Passed, refs), last.arg)
                  IN  /\ out.status = status
                      /\ out.ret = ret
                      /\ out.obj = WithRefs(heap[last.self], ref)

(* A tensile strength of material mat-1 takes its value, 25 MPa, from a    *)
(* reading of material mat-2 that names no parent.                         *)
C18_Witness ==
    /\ InCall({"UltimateTensileStrength.calculate_from_measurements"})
    /\ pre[last.self].cls = "UltimateTensileStrength"
    /\ pre[last.self].materialId = "mat-1"
    /\ Len(last.ms) = 2
    /\ \E i \in 1..2 :
           /\ Passed[i].cls = "TensileMeasurement"
           /\ Passed[i].materialId = "mat-2"
           /\ Passed[i].utsId = ""
           /\ Passed[i].forceN = I(250)
    /\ \E i \in 1..2 :
           /\ Passed[i].cls = "TensileMeasurement"
           /\ Passed[i].materialId = "mat-1"
           /\ Passed[i].utsId = "1"
    /\ last.arg = <<I(10)>>
    /\ pre[last.self].utsMPa # I(25)
    /\ heap[last.self].utsMPa = I(25)


(***************************************************************************)
(* Sequence numbers.                                                       *)
(***************************************************************************)
(* The records os, numbered 1, 2, ... in list order.                       *)
NumberedInOrder(os) ==
    [i \in DOMAIN os |->
        IF hasattr(os[i], "sequenceNumber") THEN [os[i] EXCEPT !.sequenceNumber = i]
        ELSE os[i]]

(* C19: a raw measurement constructed with a sequence number carries that  *)
(* number; no call, derivation or helper, changes the sequence number of   *)
(* any object; and a derivation over records with equal sequence numbers   *)
(* has the outcome it has over the same records numbered apart.            *)
C19_SequenceNumberReadBack ==
    /\ \A c \in RawMeasurementConstructions :
           c.obj.sequenceNumber = c.kw.sequenceNumber
    /\ last # NoCall =>
           \A id \in DOMAIN pre :
               hasattr(pre[id], "sequenceNumber") =>
                   /\ hasattr(heap[id], "sequenceNumber")
                   /\ heap[id].sequenceNumber = pre[id].sequenceNumber
    /\ InCall(AggregateOps) =>
           LET out == Dispatch(last.op, pre[last.self], NumberedInOrder(Passed), last.arg)
           IN  /\ out.status = status
               /\ out.ret = ret
               /\ out.obj = heap[last.self]

C19_Witness ==
    /\ InCall({"UltimateTensileStrength.calculate_from_measurements"})
    /\ status = "ok"
    /\ Len(last.ms) = 2
    /\ \A i \in 1..2 : hasattr(Passed[i], "sequenceNumber")
    /\ Passed[1].sequenceNumber = Passed[2].sequenceNumber
    /\ heap[last.ms[1]].sequenceNumber = heap[last.ms[2]].sequenceNumber
    /\ heap[last.self].utsMPa # pre[last.self].utsMPa


(***************************************************************************)
(* Validation.                                                             *)
(***************************************************************************)
(* C20: a constructor call succeeds whatever the numeric arguments, inside *)
(* or outside their physical range, and the new object carries every       *)
(* argument as it was given.                                               *)
C20_ConstructionStoresArguments ==
    InCall({"__init__"}) =>
        /\ status = "ok"
        /\ Len(heap) = Len(pre) + 1
        /\ \A a \in DOMAIN last.arg :
               /\ hasattr(heap[last.self], a)
               /\ heap[last.self][a] = last.arg[a]

C20_Witness ==
    /\ Constructed({"WilhelmyMeasurement"})
    /\ last.arg.forceMN = I(0 - 402)
    /\ last.arg.platePerimeterMm = I(0 - 1)
    /\ heap[last.self].forceMN = I(0 - 402)
    /\ heap[last.self].platePerimeterMm = I(0 - 1)
    /\ heap[last.self].surfaceTensionMNm = I(0)

(***************************************************************************)
(* Registration, seed data and initialisation.  A Python dict is a         *)
(* sequence of <<key, value>> pairs in insertion order; a class object is  *)
(* named by its __name__.  The manager belongs to the hosting framework:   *)
(* it is "None", an object without register_class ("object") or an object  *)
(* with register_class ("registry"), and module.register_class lists the   *)
(* register_class calls it has received.                                   *)
(***************************************************************************)
MaxFiles == 2

Keys(d) == {d[i][1] : i \in DOMAIN d}

(* d[k] of a key that is present *)
Get(d, k) == d[CHOOSE i \in DOMAIN d : d[i][1] = k][2]

(* d[k] = v *)
Put(d, k, v) ==
    IF k \in Keys(d)
    THEN [i \in DOMAIN d |-> IF d[i][1] = k THEN <<k, v>> ELSE d[i]]
    ELSE Append(d, <<k, v>>)

(* The dict a display {k1: v1, k2: v2, ...} evaluates to: a key stands    *)
(* where it first occurs and holds the value of its last occurrence.       *)
DictOf(pairs) ==
    LET firsts == {i \in DOMAIN pairs : \A j \in 1..(i - 1) : pairs[j][1] # pairs[i][1]}
        nth(n) == CHOOSE i \in firsts : Cardinality({j \in firsts : j <= i}) = n
        lastOf(k) == CHOOSE i \in DOMAIN pairs :
                         /\ pairs[i][1] = k
                         /\ \A j \in DOMAIN pairs : pairs[j][1] = k => j <= i
    IN  [n \in 1..Cardinality(firsts) |-> <<pairs[nth(n)][1], pairs[lastOf(pairs[nth(n)][1])][2]>>]

(* A constructor called with the keyword arguments kw, where defaults      *)
(* gives its parameters and their default values: a keyword that is not a  *)
(* parameter raises TypeError, and otherwise every parameter is stored     *)
(* under its own name (manager, branch and id by treeObject.__init__).     *)
Build(cls, kw, defaults) ==
    IF DOMAIN kw \subseteq DOMAIN defaults
    THEN [status |-> "ok",
          obj |-> [a \in DOMAIN defaults \cup {"cls"} |->
                      IF a = "cls" THEN cls
                      ELSE IF a \in DOMAIN kw THEN kw[a] ELSE defaults[a]]]
    ELSE [status |-> "TypeError", obj |-> [cls |-> "None"]]

DataSource(kw) ==
    Build("DataSource", kw,
        [manager |-> "None", branch |-> "None", id |-> "None",
         sourceType |-> "", sourceName |-> "", sourceReference |-> "",
         sourceAuthor |-> "", sourceDate |-> "", notes |-> ""])

DataProvenance(kw) ==
    Build("DataProvenance", kw,
        [manager |-> "None", branch |-> "None", id |-> "None",
         version |-> "", credibilityLevel |-> "unverified",
         sourceIds |-> "", notes |-> ""])

RawMaterial(kw) ==
    Build("RawMaterial", kw,
        [manager |-> "None", branch |-> "None", id |-> "None", name |-> "",
         description |-> "", materialType |-> "", chemicalName |-> "",
         chemicalFormula |-> "", casNumber |-> "", physicalForm |-> "",
         particleSize |-> "", aspectRatio |-> "", purity |-> I(0),
         grade |-> "technical", shelfLife |-> 0,
         storageConditions |-> "", moistureSensitive |-> FALSE,
         sourcingIds |-> "", processingNotes |-> "", canBeBase |-> FALSE,
         canBeAdditive |-> FALSE, canBeCompatibilizer |-> FALSE])

Compatibilizer(kw) ==
    Build("Compatibilizer", kw,
        [manager |-> "None", branch |-> "None", id |-> "None",
         rawMaterialId |-> "", name |-> "", compatibilizationType |-> "",
         effectiveness |-> I(0), compatibleBaseTypes |-> "",
         compatibleAdditiveTypes |-> "", provenanceId |-> ""])

MaterialAdditive(kw) ==
    Build("MaterialAdditive", kw,
        [manager |-> "None", branch |-> "None", id |-> "None",
         rawMaterialId |-> "", name |-> "", description |-> "",
         additiveForm |-> "", maxLoadingPercent |-> I(0),
         compatibilizerRequired |-> FALSE, provenanceId |-> ""])

PropertyEffect(kw) ==
    Build("PropertyEffect", kw,
        [manager |-> "None", branch |-> "None", id |-> "None",
         additiveId |-> "", propertyName |-> "", intent |-> "",
         normalizedEffectStrength |-> I(0),
         effectPerWeightPercent |-> I(0), effectUnit |-> "",
         testConditions |-> "", provenanceId |-> ""])

AdditiveCompatibility(kw) ==
    Build("AdditiveCompatibility", kw,
        [manager |-> "None", branch |-> "None", id |-> "None",
         additiveId |-> "", baseMaterialId |-> "", compatible |-> FALSE,
         requiresCompatibilizer |-> FALSE, compatibilizerId |-> "",
         maxLoadingWithBase |-> I(0), notes |-> "", provenanceId |-> ""])

TargetMaterialProfile(kw) ==
    Build("TargetMaterialProfile", kw,
        [manager |-> "None", branch |-> "None", id |-> "None", name |-> "",
         description |-> "", purposeId |-> "", referenceMaterialId |-> ""])

PropertyTarget(kw) ==
    Build("PropertyTarget", kw,
        [manager |-> "None", branch |-> "None", id |-> "None",
         profileId |-> "", propertyName |-> "", optimumValue |-> I(0),
         optimumRangeMin |-> I(0), optimumRangeMax |-> I(0),
         hardMinimum |-> I(0), hardMaximum |-> I(0), weight |-> I(0),
         unit |-> ""])

Formulation(kw) ==
    Build("Formulation", kw,
        [manager |-> "None", branch |-> "None", id |-> "None", name |-> "",
         description |-> "", targetProfileId |-> "", baseMaterialId |-> "",
         totalAdditiveLoadPercent |-> I(0), provenanceId |-> ""])

FormulationComponent(kw) ==
    Build("FormulationComponent", kw,
        [manager |-> "None", branch |-> "None", id |-> "None",
         formulationId |-> "", materialId |-> "", role |-> "",
         roleJustification |-> "", weightPercent |-> I(0),
         orderOfAddition |-> 0, mixingInstructions |-> "",
         expectedPropertyEffects |-> ""])

FormulationIntent(kw) ==
    Build("FormulationIntent", kw,
        [manager |-> "None", branch |-> "None", id |-> "None",
         formulationId |-> "", propertyName |-> "", direction |-> "",
         priority |-> ""])

SeededClasses ==
    {"DataSource", "DataProvenance", "RawMaterial", "Compatibilizer",
     "MaterialAdditive", "PropertyEffect", "AdditiveCompatibility",
     "TargetMaterialProfile", "PropertyTarget", "Formulation",
     "FormulationComponent", "FormulationIntent"}

(* Calling the class object named cls runs the __init__ of that class. *)
ClassCall(cls, kw) ==
    CASE cls = "DataSource" -> DataSource(kw)
      [] cls = "DataProvenance" -> DataProvenance(kw)
      [] cls = "RawMaterial" -> RawMaterial(kw)
      [] cls = "Compatibilizer" -> Compatibilizer(kw)
      [] cls = "MaterialAdditive" -> MaterialAdditive(kw)
      [] cls = "PropertyEffect" -> PropertyEffect(kw)
      [] cls = "AdditiveCompatibility" -> AdditiveCompatibility(kw)
      [] cls = "TargetMaterialProfile" -> TargetMaterialProfile(kw)
      [] cls = "PropertyTarget" -> PropertyTarget(kw)
      [] cls = "Formulation" -> Formulation(kw)
      [] cls = "FormulationComponent" -> FormulationComponent(kw)
      [] cls = "FormulationIntent" -> FormulationIntent(kw)

(* The call of the class cls with the mapping kw unpacked as keyword       *)
(* arguments.                                                              *)
Instantiate(cls, kw) == ClassCall(cls, kw)

(* The display that register_materials_science_defaults assigns to          *)
(* registered_classes, entry by entry.                                     *)
registered_classes_literal ==
    <<<<"Material", "Material">>,
      <<"MaterialProperty", "MaterialProperty">>,
      <<"MaterialResolution", "MaterialResolution">>,
      <<"MaterialPurpose", "MaterialPurpose">>,
      <<"MaterialRelatedDevice", "MaterialRelatedDevice">>,
      <<"PropertyCategory", "PropertyCategory">>,
      <<"RheologicalProperty", "RheologicalProperty">>,
      <<"MechanicalProperty", "MechanicalProperty">>,
      <<"SurfaceProperty", "SurfaceProperty">>,
      <<"ThermalProperty", "ThermalProperty">>,
      <<"Viscosity", "Viscosity">>, <<"KrebsViscosity", "KrebsViscosity">>,
      <<"StormerViscosity", "StormerViscosity">>,
      <<"Elasticity", "Elasticity">>,
      <<"StorageModulus", "StorageModulus">>,
      <<"DMAMeasurement", "DMAMeasurement">>,
      <<"RheometerMeasurement", "RheometerMeasurement">>,
      <<"MeltFlowIndex", "MeltFlowIndex">>, <<"MFIValue", "MFIValue">>,
      <<"MFIMeasurement", "MFIMeasurement">>, <<"Hardness", "Hardness">>,
      <<"HardnessScale", "HardnessScale">>,
      <<"ShoreMeasurement", "ShoreMeasurement">>,
      <<"TensileStrength", "TensileStrength">>,
      <<"UltimateTensileStrength", "UltimateTensileStrength">>,
      <<"TensileMeasurement", "TensileMeasurement">>,
      <<"SolidSurfaceEnergy", "SolidSurfaceEnergy">>,
      <<"CriticalSurfaceTension", "CriticalSurfaceTension">>,
      <<"ContactAngleMeasurement", "ContactAngleMeasurement">>,
      <<"LiquidSurfaceTension", "LiquidSurfaceTension">>,
      <<"SurfaceTensionValue", "SurfaceTensionValue">>,
      <<"WilhelmyMeasurement", "WilhelmyMeasurement">>,
      <<"MeltingPoint", "MeltingPoint">>,
      <<"MeltingPointValue", "MeltingPointValue">>,
      <<"DSCMeltingMeasurement", "DSCMeltingMeasurement">>,
      <<"GlassTransition", "GlassTransition">>,
      <<"GlassTransitionTemp", "GlassTransitionTemp">>,
      <<"DMAGlassTransitionMeasurement", "DMAGlassTransitionMeasurement">>,
      <<"SmokingPoint", "SmokingPoint">>,
      <<"SmokingPointValue", "SmokingPointValue">>,
      <<"SmokingPointMeasurement", "SmokingPointMeasurement">>,
      <<"ThermalExpansion", "ThermalExpansion">>,
      <<"CoefficientOfThermalExpansion", "CoefficientOfThermalExpansion">>,
      <<"TMAMeasurement", "TMAMeasurement">>,
      <<"SpecificGravity", "SpecificGravity">>,
      <<"ReferentialSpecificGravity", "ReferentialSpecificGravity">>,
      <<"PycnometerMeasurement", "PycnometerMeasurement">>,
      <<"HydrometerMeasurement", "HydrometerMeasurement">>,
      <<"DensityMeterMeasurement", "DensityMeterMeasurement">>,
      <<"ResolutionCategory", "ResolutionCategory">>,
      <<"ExperimentalResolution", "ExperimentalResolution">>,
      <<"ContinuumResolution", "ContinuumResolution">>,
      <<"MesoscaleResolution", "MesoscaleResolution">>,
      <<"AtomisticResolution", "AtomisticResolution">>,
      <<"QuantumResolution", "QuantumResolution">>,
      <<"RawExperimentalMaterial", "RawExperimentalMaterial">>,
      <<"RulesOfMixturesExperimentalMaterial", "RulesOfMixturesExperimentalMaterial">>,
      <<"ConsistentFiniteElementMaterial", "ConsistentFiniteElementMaterial">>,
      <<"StochasticFiniteElementMaterial", "StochasticFiniteElementMaterial">>,
      <<"ChosenMaterial", "ChosenMaterial">>,
      <<"RangeMaterial", "RangeMaterial">>,
      <<"CoarsegrainedMolecularDynamicsMaterial", "CoarsegrainedMolecularDynamicsMaterial">>,
      <<"MolecularDynamicsMaterial", "MolecularDynamicsMaterial">>,
      <<"DensityFunctionalMaterial", "DensityFunctionalMaterial">>,
      <<"PurposeCategory", "PurposeCategory">>,
      <<"CNCMachinable", "CNCMachinable">>,
      <<"ThreeDimensionalPrintable", "ThreeDimensionalPrintable">>,
      <<"MoldFabricationPurpose", "MoldFabricationPurpose">>,
      <<"ThreeDimensionalPrintedMoldMaterial", "ThreeDimensionalPrintedMoldMaterial">>,
      <<"FDMPrintedMoldMaterial", "FDMPrintedMoldMaterial">>,
      <<"SLAPrintedMoldMaterial", "SLAPrintedMoldMaterial">>,
      <<"SLSPrintedMoldMaterial", "SLSPrintedMoldMaterial">>,
      <<"CNCMachinedMoldMaterial", "CNCMachinedMoldMaterial">>,
      <<"MilledMoldMaterial", "MilledMoldMaterial">>,
      <<"TurnedMoldMaterial", "TurnedMoldMaterial">>,
      <<"GeopolymerConcreteMoldMaterial", "GeopolymerConcreteMoldMaterial">>,
      <<"GeopolymerThermalResistantConcreteMoldMaterial", "GeopolymerThermalResistantConcreteMoldMaterial">>,
      <<"DeviceCategory", "DeviceCategory">>,
      <<"ThreeDimensionalPrintingDevice", "ThreeDimensionalPrintingDevice">>,
      <<"FDMPrinter", "FDMPrinter">>, <<"SLAPrinter", "SLAPrinter">>,
      <<"SLSPrinter", "SLSPrinter">>, <<"CNCMill", "CNCMill">>,
      <<"ThreeAxisMill", "ThreeAxisMill">>,
      <<"FiveAxisMill", "FiveAxisMill">>, <<"CNCLathe", "CNCLathe">>,
      <<"MaterialTestingDevice", "MaterialTestingDevice">>,
      <<"Viscometer", "Viscometer">>,
      <<"HardnessTester", "HardnessTester">>,
      <<"TensileTestingMachine", "TensileTestingMachine">>,
      <<"ThermalAnalyzer", "ThermalAnalyzer">>,
      <<"ReferenceMaterial", "ReferenceMaterial">>,
      <<"PropertyValueSource", "PropertyValueSource">>,
      <<"PrintableReferenceMaterial", "PrintableReferenceMaterial">>,
      <<"PLA", "PLA">>, <<"ABS", "ABS">>, <<"PETG", "PETG">>,
      <<"Nylon", "Nylon">>, <<"TPU", "TPU">>, <<"PHA", "PHA">>,
      <<"RawMaterial", "RawMaterial">>,
      <<"MaterialSourcing", "MaterialSourcing">>,
      <<"NaturalSourcing", "NaturalSourcing">>,
      <<"OpenSourceLocalSourcing", "OpenSourceLocalSourcing">>,
      <<"CommercialSourcing", "CommercialSourcing">>,
      <<"DataProvenance", "DataProvenance">>,
      <<"DataSource", "DataSource">>,
      <<"MaterialAdditive", "MaterialAdditive">>,
      <<"PropertyEffect", "PropertyEffect">>,
      <<"AdditiveCompatibility", "AdditiveCompatibility">>,
      <<"Compatibilizer", "Compatibilizer">>,
      <<"TargetMaterialProfile", "TargetMaterialProfile">>,
      <<"PropertyTarget", "PropertyTarget">>,
      <<"Formulation", "Formulation">>,
      <<"FormulationComponent", "FormulationComponent">>,
      <<"FormulationIntent", "FormulationIntent">>>>

Managers == {"None", "object", "registry"}

(* hasattr(manager, 'register_class') *)
HasRegisterClass(manager) == manager = "registry"

(* Registration in which every manager that is not None is handed the      *)
(* classes, whether or not it has register_class.                          *)
register_materials_science_defaults_unguarded(manager, calls) ==
    LET registered_classes == DictOf(registered_classes_literal)
    IN  [ret |-> registered_classes,
         calls |-> IF manager # "None" THEN calls \o registered_classes ELSE calls]

(* register_materials_science_defaults(manager), where calls lists the     *)
(* register_class calls the manager has received: the returned dict and    *)
(* the calls afterwards.                                                   *)
register_materials_science_defaults(manager, calls) ==
    LET registered_classes == DictOf(registered_classes_literal)
    IN  [ret |-> registered_classes,
         calls |-> IF manager # "None" /\ HasRegisterClass(manager)
                   THEN calls \o registered_classes
                   ELSE calls]

(* A load order in which formulations are read before the raw materials.   *)
load_order_formulations_first ==
    <<<<"dataSources.json", "DataSource">>,
      <<"dataProvenances.json", "DataProvenance">>,
      <<"formulations.json", "Formulation">>,
      <<"compatibilizers.json", "Compatibilizer">>,
      <<"materialAdditives.json", "MaterialAdditive">>,
      <<"propertyEffects.json", "PropertyEffect">>,
      <<"additiveCompatibilities.json", "AdditiveCompatibility">>,
      <<"targetMaterialProfiles.json", "TargetMaterialProfile">>,
      <<"propertyTargets.json", "PropertyTarget">>,
      <<"rawMaterials.json", "RawMaterial">>,
      <<"formulationComponents.json", "FormulationComponent">>,
      <<"formulationIntents.json", "FormulationIntent">>>>

load_order ==
    <<<<"dataSources.json", "DataSource">>,
      <<"dataProvenances.json", "DataProvenance">>,
      <<"rawMaterials.json", "RawMaterial">>,
      <<"compatibilizers.json", "Compatibilizer">>,
      <<"materialAdditives.json", "MaterialAdditive">>,
      <<"propertyEffects.json", "PropertyEffect">>,
      <<"additiveCompatibilities.json", "AdditiveCompatibility">>,
      <<"targetMaterialProfiles.json", "TargetMaterialProfile">>,
      <<"propertyTargets.json", "PropertyTarget">>,
      <<"formulations.json", "Formulation">>,
      <<"formulationComponents.json", "FormulationComponent">>,
      <<"formulationIntents.json", "FormulationIntent">>>>

(* The id fields of each seeded class and the seeded class each of them    *)
(* names, as the classes' docstrings give them.                            *)
References(cls) ==
    CASE cls = "DataProvenance" -> <<<<"sourceIds", "DataSource">>>>
      [] cls = "Compatibilizer" ->
             <<<<"rawMaterialId", "RawMaterial">>, <<"provenanceId", "DataProvenance">>>>
      [] cls = "MaterialAdditive" ->
             <<<<"rawMaterialId", "RawMaterial">>, <<"provenanceId", "DataProvenance">>>>
      [] cls = "PropertyEffect" ->
             <<<<"additiveId", "MaterialAdditive">>, <<"provenanceId", "DataProvenance">>>>
      [] cls = "AdditiveCompatibility" ->
             <<<<"additiveId", "MaterialAdditive">>, <<"baseMaterialId", "RawMaterial">>,
               <<"compatibilizerId", "Compatibilizer">>, <<"provenanceId", "DataProvenance">>>>
      [] cls = "PropertyTarget" -> <<<<"profileId", "TargetMaterialProfile">>>>
      [] cls = "Formulation" ->
             <<<<"targetProfileId", "TargetMaterialProfile">>, <<"baseMaterialId", "RawMaterial">>,
               <<"provenanceId", "DataProvenance">>>>
      [] cls = "FormulationComponent" ->
             <<<<"formulationId", "Formulation">>, <<"materialId", "RawMaterial">>>>
      [] cls = "FormulationIntent" -> <<<<"formulationId", "Formulation">>>>
      [] OTHER -> <<>>

(* A record of a seed file of cls: its id, and in every id field the same  *)
(* id, naming the record of that number in the referenced class's file.    *)
SeedRecord(cls, id) ==
    [a \in {"id"} \cup Keys(References(cls)) |-> id]

(* The contents a seed file of cls may have: an array of records, one of   *)
(* them possibly with a key that is no parameter of the constructor, one   *)
(* possibly with a manager of its own.                                     *)
FileContents(cls) ==
    {<<>>,
     <<SeedRecord(cls, "1")>>,
     <<SeedRecord(cls, "1"), SetAttrs(SeedRecord(cls, "2"), [manager |-> "from-file"])>>,
     <<SeedRecord(cls, "1"), SetAttrs(SeedRecord(cls, "2"), [colour |-> "red"]),
       SeedRecord(cls, "3")>>}

(* Seeding in which a record whose construction raises is dropped and the  *)
(* loop goes on to the next record.                                        *)
seed_record_skipping_failures(m, cls) ==
    LET record == SetAttrs(Head(m.records), [manager |-> m.manager])
        r == Instantiate(cls, record)
    IN  IF r.status = "ok"
        THEN [m EXCEPT !.records = Tail(@),
                       !.instances = Append(@, r.obj),
                       !.constructed = Append(@, r.obj)]
        ELSE [m EXCEPT !.records = Tail(@)]

(* One turn of "for record in records": record['manager'] = manager;       *)
(* obj = cls called with the record as keywords; instances.append(obj).   *)
(* An exception of the constructor leaves the function and its callers.   *)
seed_record(m, cls) ==
    LET record == SetAttrs(Head(m.records), [manager |-> m.manager])
        r == Instantiate(cls, record)
    IN  IF r.status = "ok"
        THEN [m EXCEPT !.records = Tail(@),
                       !.instances = Append(@, r.obj),
                       !.constructed = Append(@, r.obj)]
        ELSE [m EXCEPT !.pc = "raised", !.raised = r.status]

(* initialize in which the seed data are loaded whatever the flag.         *)
initialize_branch_always_seeding(m) ==
    LET result == DictOf(<<<<"registered_classes", m.registered_classes>>,
                           <<"seed_data", <<>>>>>>)
    IN  [m EXCEPT !.locals = <<result>>, !.pc = "seed", !.index = 1]

(* initialize after register_materials_science_defaults has returned: the  *)
(* result dict is built and include_seed_data decides what follows.        *)
initialize_branch(m) ==
    LET result == DictOf(<<<<"registered_classes", m.registered_classes>>,
                           <<"seed_data", <<>>>>>>)
    IN  IF m.include_seed_data
        THEN [m EXCEPT !.locals = <<result>>, !.pc = "seed", !.index = 1]
        ELSE [m EXCEPT !.locals = <<result>>, !.pc = "returned", !.result = <<result>>]

Unframed == UNCHANGED <<heap, pre, last, ret, status, ncalls, prev>>

CallRegister ==
    /\ module.pc = "idle"
    /\ \E manager \in Managers :
           module' = [module EXCEPT !.pc = "register",
                                    !.entry = "register_materials_science_defaults",
                                    !.manager = manager]
    /\ Unframed

CallInitialize ==
    /\ module.pc = "idle"
    /\ \E manager \in Managers, include_seed_data \in BOOLEAN :
           module' = [module EXCEPT !.pc = "register",
                                    !.entry = "initialize",
                                    !.manager = manager,
                                    !.include_seed_data = include_seed_data]
    /\ Unframed

CallSeed ==
    /\ module.pc = "idle"
    /\ \E manager \in Managers :
           module' = [module EXCEPT !.pc = "seed",
                                    !.entry = "seed_initial_data",
                                    !.manager = manager,
                                    !.index = 1]
    /\ Unframed

(* register_materials_science_defaults runs to its return. *)
Register ==
    /\ module.pc = "register"
    /\ LET r == register_materials_science_defaults(module.manager, module.register_class)
       IN  module' = [module EXCEPT
                          !.registered_classes = r.ret,
                          !.register_class = r.calls,
                          !.pc = IF module.entry = "initialize" THEN "registered" ELSE "returned",
                          !.result = IF module.entry = "initialize" THEN <<>> ELSE <<r.ret>>]
    /\ Unframed

InitializeBranch ==
    /\ module.pc = "registered"
    /\ module' = initialize_branch(module)
    /\ Unframed

(* if not os.path.exists(filepath): continue *)
SkipMissingFile ==
    /\ module.pc = "seed"
    /\ module.index \in DOMAIN load_order
    /\ module' = [module EXCEPT !.index = @ + 1,
                                 !.missing = @ \cup {load_order[module.index][1]}]
    /\ Unframed

(* records = json.load(f); instances = [] *)
LoadFile ==
    /\ module.pc = "seed"
    /\ module.index \in DOMAIN load_order
    /\ Len(module.created) < MaxFiles
    /\ \E records \in FileContents(load_order[module.index][2]) :
           module' = [module EXCEPT !.pc = "records", !.records = records, !.instances = <<>>]
    /\ Unframed

ConstructRecord ==
    /\ module.pc = "records"
    /\ module.records # <<>>
    /\ module' = seed_record(module, load_order[module.index][2])
    /\ Unframed

(* created[cls.__name__] = instances *)
StoreInstances ==
    /\ module.pc = "records"
    /\ module.records = <<>>
    /\ module' = [module EXCEPT
                      !.created = Put(@, load_order[module.index][2], module.instances),
                      !.index = @ + 1,
                      !.pc = "seed"]
    /\ Unframed

(* return created, and in initialize: result['seed_data'] = ...; return    *)
(* result                                                                  *)
ReturnCreated ==
    /\ module.pc = "seed"
    /\ module.index \notin DOMAIN load_order
    /\ module' = [module EXCEPT
                      !.pc = "returned",
                      !.result = IF module.entry = "initialize"
                                 THEN <<Put(module.locals[1], "seed_data", module.created)>>
                                 ELSE <<module.created>>]
    /\ Unframed

InitModule ==
    /\ heap = <<>>
    /\ pre = <<>>
    /\ last = NoCall
    /\ ret = <<>>
    /\ status = "init"
    /\ ncalls = 0
    /\ prev = NoRun
    /\ module = NotInitialized

NextModule ==
    \/ CallRegister
    \/ CallInitialize
    \/ CallSeed
    \/ Register
    \/ InitializeBranch
    \/ SkipMissingFile
    \/ LoadFile
    \/ ConstructRecord
    \/ StoreInstances
    \/ ReturnCreated

SpecModule == InitModule /\ [][NextModule]_vars

(* The names of the types the registry holds. *)
RegisteredTypeNames == {registered_classes_literal[i][2] : i \in DOMAIN registered_classes_literal}

(* The keywords the constructor of a seeded class accepts. *)
Keywords(cls) == DOMAIN ClassCall(cls, [id |-> "None"]).obj \ {"cls"}

(* register_materials_science_defaults has run to its return. *)
Registered == module.pc \notin {"idle", "register"} /\ module.entry # "seed_initial_data"

(* C22: register_materials_science_defaults returns one flat mapping in    *)
(* which every key is the name of the type it maps to, the same mapping    *)
(* for every manager; a manager with register_class receives exactly one   *)
(* register_class(name, type) call for each entry, and for the manager     *)
(* None or a manager without register_class nothing is registered and the  *)
(* full mapping is still returned.                                         *)
C22_RegistrationReturnsTheFullMapping ==
    Registered =>
        LET d == module.registered_classes
            calls == module.register_class
        IN  /\ \A i \in DOMAIN d : d[i][1] = d[i][2]
            /\ \A i, j \in DOMAIN d : d[i][1] = d[j][1] => i = j
            /\ Keys(d) = RegisteredTypeNames
            /\ Len(d) = Len(registered_classes_literal)
            /\ module.entry = "register_materials_science_defaults" => module.result = <<d>>
            /\ module.manager = "registry" =>
                   /\ Len(calls) = Len(d)
                   /\ \A i \in DOMAIN d : Cardinality({j \in DOMAIN calls : calls[j] = d[i]}) = 1
            /\ module.manager \in {"None", "object"} => calls = <<>>

C22_Witness ==
    /\ module.entry = "register_materials_science_defaults"
    /\ module.pc = "returned"
    /\ module.manager = "registry"
    /\ Len(module.result[1]) > 100
    /\ <<"FormulationIntent", "FormulationIntent">> \in Range(module.register_class)

(* The order of the seeded classes. *)
SeedOrder ==
    <<"DataSource", "DataProvenance", "RawMaterial", "Compatibilizer", "MaterialAdditive",
      "PropertyEffect", "AdditiveCompatibility", "TargetMaterialProfile", "PropertyTarget",
      "Formulation", "FormulationComponent", "FormulationIntent">>

Position(cls) == CHOOSE i \in DOMAIN SeedOrder : SeedOrder[i] = cls

(* The seeded classes that the id fields of cls name. *)
Referenced(cls) == {References(cls)[i][2] : i \in DOMAIN References(cls)}

Seeding == module.entry \in {"seed_initial_data", "initialize"}

(* C23: seed_initial_data takes the seed files in the fixed order          *)
(* DataSource, DataProvenance, RawMaterial, Compatibilizer,                *)
(* MaterialAdditive, PropertyEffect, AdditiveCompatibility,                *)
(* TargetMaterialProfile, PropertyTarget, Formulation,                     *)
(* FormulationComponent, FormulationIntent, so that no instance is         *)
(* constructed before an instance of a seeded class its id fields name;    *)
(* a missing file raises nothing, leaves its class out of the result and   *)
(* does not keep a later file from being loaded.                           *)
C23_SeedFilesInDependencyOrder ==
    Seeding =>
        LET made == module.constructed
        IN  /\ \A i, j \in DOMAIN made :
                   i < j => /\ Position(made[i].cls) <= Position(made[j].cls)
                            /\ made[j].cls \notin Referenced(made[i].cls)
            /\ \A i \in DOMAIN module.created :
                   \A j \in DOMAIN module.created :
                       i < j => Position(module.created[i][1]) < Position(module.created[j][1])
            /\ module.missing # {} /\ module.constructed = <<>> => module.raised = ""
            /\ (module.pc = "returned" /\ (module.entry = "seed_initial_data" \/ module.include_seed_data)) =>
                   LET created == IF module.entry = "initialize"
                                  THEN Get(module.result[1], "seed_data")
                                  ELSE module.result[1]
                   IN  /\ \A i \in DOMAIN load_order :
                              load_order[i][1] \in module.missing <=> load_order[i][2] \notin Keys(created)
                       /\ \A i \in DOMAIN created :
                              created[i][2] = SelectSeq(made, LAMBDA o : o.cls = created[i][1])

C23_Witness ==
    /\ module.entry = "seed_initial_data"
    /\ module.pc = "returned"
    /\ {"dataSources.json", "dataProvenances.json", "compatibilizers.json"} \subseteq module.missing
    /\ Keys(module.result[1]) = {"RawMaterial", "Formulation"}
    /\ Len(module.constructed) = 3
    /\ module.constructed[1].cls = "RawMaterial"
    /\ module.constructed[3].cls = "Formulation"
    /\ module.constructed[3].baseMaterialId = module.constructed[1].id

(* Registration has been carried out in full for the manager given. *)
RegistrationCompleted ==
    /\ Keys(module.registered_classes) = RegisteredTypeNames
    /\ module.manager = "registry" => Len(module.register_class) = Len(registered_classes_literal)

(* Some step of seed loading has been taken. *)
SeedLoadingStarted ==
    \/ module.pc \in {"seed", "records"}
    \/ module.missing # {}
    \/ module.constructed # <<>>
    \/ module.created # <<>>

(* C24 as stated: initialize(manager, include_seed_data) always registers  *)
(* the classes; it loads seed data only when include_seed_data is true,    *)
(* and only after registration has completed; every call that has ended    *)
(* has returned both keys, 'registered_classes' with the full mapping and  *)
(* 'seed_data', which is the empty mapping when seeding is off.            *)
C24_AlwaysReturnsBothKeys ==
    module.entry = "initialize" =>
        /\ SeedLoadingStarted => module.include_seed_data /\ RegistrationCompleted
        /\ module.pc \in {"returned", "raised"} =>
               /\ module.pc = "returned"
               /\ RegistrationCompleted
               /\ Len(module.result) = 1
               /\ Keys(module.result[1]) = {"registered_classes", "seed_data"}
               /\ Get(module.result[1], "registered_classes") = module.registered_classes
               /\ Get(module.result[1], "seed_data") =
                      (IF module.include_seed_data THEN module.created ELSE <<>>)

(* C24: initialize(manager, include_seed_data) always registers the        *)
(* classes; it loads seed data only when include_seed_data is true, and    *)
(* only after registration has completed; whenever it returns it returns   *)
(* both keys, 'registered_classes' with the full mapping and 'seed_data',  *)
(* which is the empty mapping when seeding is off; and it ends without     *)
(* returning only when seeding is on, registration has completed and the   *)
(* construction of a seed record raised.                                   *)
C24_InitializeRegistersThenSeeds ==
    module.entry = "initialize" =>
        /\ SeedLoadingStarted => module.include_seed_data /\ RegistrationCompleted
        /\ module.pc = "returned" =>
               /\ RegistrationCompleted
               /\ Len(module.result) = 1
               /\ Keys(module.result[1]) = {"registered_classes", "seed_data"}
               /\ Get(module.result[1], "registered_classes") = module.registered_classes
               /\ Get(module.result[1], "seed_data") =
                      (IF module.include_seed_data THEN module.created ELSE <<>>)
               /\ ~module.include_seed_data => ~SeedLoadingStarted
        /\ module.pc = "raised" =>
               /\ module.include_seed_data
               /\ RegistrationCompleted
               /\ module.result = <<>>
               /\ module.raised = "TypeError"
               /\ module.records # <<>>

C24_Witness ==
    /\ module.entry = "initialize"
    /\ module.pc = "returned"
    /\ module.include_seed_data
    /\ module.manager = "registry"
    /\ Len(module.register_class) > 100
    /\ Keys(Get(module.result[1], "seed_data")) = {"DataSource", "DataProvenance"}
    /\ Len(Get(Get(module.result[1], "seed_data"), "DataProvenance")) = 2

(* The constructor of cls accepts the record, 'manager' added. *)
Accepts(cls, record) == DOMAIN record \cup {"manager"} \subseteq Keywords(cls)

(* The instances of a dict of lists, list after list. *)
RECURSIVE Flatten(_)
Flatten(d) == IF d = <<>> THEN <<>> ELSE d[1][2] \o Flatten(Tail(d))

(* The file being read is some array of records of which the records not   *)
(* yet taken are the end, and every record before them was accepted and    *)
(* has its instance, in order.                                             *)
FileProgress(cls) ==
    \E c \in FileContents(cls) :
        LET n == Len(c) - Len(module.records)
        IN  /\ n >= 0
            /\ SubSeq(c, n + 1, Len(c)) = module.records
            /\ Len(module.instances) = n
            /\ \A i \in 1..n : /\ Accepts(cls, c[i])
                                /\ module.instances[i].cls = cls
                                /\ module.instances[i].id = c[i].id

(* C29: when the construction of a seed record raises, seed_initial_data   *)
(* lets the error through at once: the failing record is the first one not *)
(* yet taken, no record after it is constructed, no later file is read, no *)
(* mapping is returned (by seed_initial_data or by initialize), and every  *)
(* instance constructed before the failure is still there, constructed     *)
(* with the manager.                                                       *)
C29_SeedErrorPropagatesWithoutRollback ==
    Seeding =>
        LET cls == load_order[module.index][2]
        IN  /\ module.pc \in {"records", "raised"} => FileProgress(cls)
            /\ module.pc = "raised" =>
                   /\ module.raised = "TypeError"
                   /\ module.result = <<>>
                   /\ module.records # <<>>
                   /\ ~Accepts(cls, Head(module.records))
                   /\ cls \notin Keys(module.created)
                   /\ \A i \in DOMAIN module.created : Position(module.created[i][1]) < Position(cls)
                   /\ module.constructed = Flatten(module.created) \o module.instances
                   /\ \A i \in DOMAIN module.constructed :
                          module.constructed[i].manager = module.manager

C29_Witness ==
    /\ module.entry = "initialize"
    /\ module.pc = "raised"
    /\ module.manager = "registry"
    /\ load_order[module.index][2] = "Formulation"
    /\ Keys(module.created) = {"RawMaterial"}
    /\ Len(module.constructed) = 3
    /\ module.constructed[3].cls = "Formulation"
    /\ Len(module.records) = 2
    /\ "colour" \in DOMAIN Head(module.records)

(* The field of a record whose presence and sign decide whether an         *)
(* aggregate method takes the record.                                      *)
TestedAttr(op) ==
    CASE op = "HardnessScale.calculate_from_measurements" -> "hardnessReading"
      [] op = "ReferentialSpecificGravity.calculate_from_measurements" -> "specificGravityValue"
      [] op = "SurfaceTensionValue.calculate_from_measurements" -> "surfaceTensionMNm"
      [] op = "MFIValue.calculate_from_measurements" -> "extrudateMass"
      [] op = "KrebsViscosity.calculate_from_stormer_measurements" -> "grams"
      [] op = "UltimateTensileStrength.calculate_from_measurements" -> "forceN"
      [] op = "CoefficientOfThermalExpansion.calculate_from_measurements" -> "temperatureC"

(* C25: for every aggregate derivation method, a call with a non-empty     *)
(* collection in which every record lacks the field read or carries a      *)
(* value <= 0 in it behaves like a call with the empty collection: it      *)
(* returns the stored derived value and leaves every object as it was.     *)
C25_NoValidRecordIsNoOp ==
    (/\ InCall(AggregateOps)
     /\ last.ms # <<>>
     /\ \A i \in DOMAIN Passed :
            hasattr(Passed[i], TestedAttr(last.op)) => RLe(Passed[i][TestedAttr(last.op)], I(0))) =>
        /\ status = "ok"
        /\ ret = <<pre[last.self][DerivedAttr(last.op)]>>
        /\ heap = pre

(* The aggregate methods that read, in each record, the field they write   *)
(* on the target.                                                          *)
SelfFeedingOps ==
    {"ReferentialSpecificGravity.calculate_from_measurements",
     "SurfaceTensionValue.calculate_from_measurements"}

(* The derived value the target would hold after the same call made once   *)
(* more, directly after the call in progress.                              *)
StoredAfterSecondCall == Outcome(heap, last).obj[DerivedAttr(last.op)]

(* C26 as claimed: every aggregate derivation method is idempotent: the    *)
(* same call made twice in succession leaves the stored value of the one   *)
(* call, also when the collection holds derived-value objects or the       *)
(* target itself.                                                          *)
C26_Idempotent ==
    InCall(AggregateOps) =>
        StoredAfterSecondCall = heap[last.self][DerivedAttr(last.op)]

(* C26 amended: the same call made twice in succession leaves the stored   *)
(* value of the one call whenever the target is not among the records      *)
(* passed, and for the hardness, MFI, Krebs, UTS and CTE methods also when *)
(* it is; the second call has the outcome (return or exception) of the     *)
(* first.                                                                  *)
C26_IdempotentUnlessSelfFeeding ==
    (InCall(AggregateOps) /\ (last.self \notin Range(last.ms) \/ last.op \notin SelfFeedingOps)) =>
        /\ StoredAfterSecondCall = heap[last.self][DerivedAttr(last.op)]
        /\ Outcome(heap, last).status = status
        /\ Outcome(heap, last).obj = heap[last.self]

C26_Witness ==
    /\ InCall({"HardnessScale.calculate_from_measurements"})
    /\ last.self \in Range(last.ms)
    /\ heap[last.self].cls = "ShoreMeasurement"
    /\ heap[last.self].hardnessValue # pre[last.self].hardnessValue
    /\ StoredAfterSecondCall = heap[last.self].hardnessValue

(* The mfiGramsPer10Min a cut held when its constructor returned. *)
PerCutAtConstruction(m) ==
    MFIMeasurement(m.materialId, m.mfiValueId, m.sequenceNumber,
                   m.extrusionTime, m.extrudateMass).mfiGramsPer10Min

(* C30: the two MFI computations agree: for every collection of            *)
(* MFIMeasurement objects, MFIValue.calculate_from_measurements stores the *)
(* arithmetic mean of the per-cut mfiGramsPer10Min values the objects      *)
(* computed at construction, over exactly the cuts with extrudateMass > 0  *)
(* and extrusionTime > 0 (and keeps the stored value when there is none);  *)
(* a cut with extrusionTime > 0 and extrudateMass <= 0 has a per-cut value *)
(* <= 0 of its own and takes no part in the mean.                          *)
C30_AggregateIsMeanOfPerCutValues ==
    (/\ InCall({"MFIValue.calculate_from_measurements"})
     /\ \A i \in DOMAIN Passed : Passed[i].cls = "MFIMeasurement") =>
        LET counted == {i \in DOMAIN Passed :
                           /\ RGt(Passed[i].extrudateMass, I(0))
                           /\ RGt(Passed[i].extrusionTime, I(0))}
            perCut == [i \in DOMAIN Passed |-> PerCutAtConstruction(Passed[i])]
        IN  /\ status = "ok"
            /\ counted # {} =>
                   heap[last.self].mfiGramsPer10Min =
                       RDiv(RSum(counted, perCut), I(Cardinality(counted)))
            /\ counted = {} => heap[last.self].mfiGramsPer10Min = pre[last.self].mfiGramsPer10Min
            /\ \A i \in DOMAIN Passed :
                   (RGt(Passed[i].extrusionTime, I(0)) /\ RLe(Passed[i].extrudateMass, I(0))) =>
                       /\ RLe(perCut[i], I(0))
                       /\ perCut[i] = RMul(RDiv(Passed[i].extrudateMass, Passed[i].extrusionTime), I(600))
                       /\ i \notin counted

C30_Witness ==
    /\ InCall({"MFIValue.calculate_from_measurements"})
    /\ heap[last.self].cls = "MFIValue"
    /\ Len(last.ms) = 2
    /\ \A i \in DOMAIN Passed : Passed[i].cls = "MFIMeasurement"
    /\ Passed[1].extrusionTime = I(60) /\ Passed[1].extrudateMass = I(0 - 1)
    /\ Passed[1].mfiGramsPer10Min = I(0 - 10)
    /\ Passed[2].mfiGramsPer10Min = I(10)
    /\ pre[last.self].mfiGramsPer10Min = I(12)
    /\ heap[last.self].mfiGramsPer10Min = I(10)

(***************************************************************************)
(* Per-record helper methods.  The heap holds readings as their            *)
(* constructors leave them, with the derived field at its default, and a   *)
(* caller that calls a helper of one reading, keeps the record of that     *)
(* call and then makes a second call.                                      *)
(***************************************************************************)
HelperSpecificGravityFamily ==
    {<<ReferentialSpecificGravity("mat-1", I(2)),
       PycnometerMeasurement("mat-2", "7", 1, I(10), I(20), I(25), Rat(3, 2)),
       x,
       HydrometerMeasurement("mat-1", "1", 3, h[2], I(0), h[1])>> :
        <<x, h>> \in
            ({PycnometerMeasurement("mat-1", "1", 2, w[1], w[2], w[3], I(0)) :
                  w \in PycnometerWeights}
             \cup {DensityMeterMeasurement("mat-1", "1", 2, d[1], I(0), d[2]) :
                       d \in DensityReadings})
            \X ScaleReadings}

HelperTensileFamily ==
    {<<SetAttrs(TensileMeasurement("mat-1", "1", 1, I(100)),
                [specimenWidth |-> w, gaugeLength |-> g, displacementMm |-> I(5)])>> :
        <<w, g>> \in {I(13), I(0), I(0 - 2)} \X {I(50), I(0)}}

HelperThermalFamily ==
    {<<SetAttrs(TMAMeasurement("mat-1", "1", 1, I(125), I(50)), [originalLengthMm |-> l]),
       DSCMeltingMeasurement("mat-1", "3", 1, I(20), m),
       MeltingPointValue("mat-1", I(165), I(100), I(40))>> :
        <<l, m>> \in {I(10), I(0)} \X {I(10), I(0), I(0 - 5)}}

HelperModulusFamily ==
    {<<StorageModulus("mat-1", g, I(50), Rat(1, 10)),
       DMAGlassTransitionMeasurement("mat-1", "1", 1, g, I(50), Rat(1, 10))>> :
        g \in {I(200), I(0), I(0 - 10)}}

HelperContactAngleFamily ==
    {<<ContactAngleMeasurement("mat-1", "1", 1, I(60), a[1], a[2])>> :
        a \in {<<I(58), I(64)>>, <<I(0), I(62)>>, <<I(58), I(0 - 1)>>}}

HelperFamilies ==
    HelperSpecificGravityFamily \cup HelperTensileFamily \cup HelperThermalFamily
        \cup HelperModulusFamily \cup HelperContactAngleFamily

InitHelpers ==
    /\ heap \in HelperFamilies
    /\ pre = <<>>
    /\ last = NoCall
    /\ ret = <<>>
    /\ status = "init"
    /\ ncalls = 0
    /\ prev = NoRun
    /\ module = NotInitialized

NextHelpers ==
    \/ CalculateSpecificGravity
    \/ CalculatePycnometerSpecificGravity
    \/ CalculateDensityMeterSpecificGravity
    \/ ConvertToSpecificGravity
    \/ CalculateComplexModulus
    \/ CalculateLossFactor
    \/ CalculateTanDelta
    \/ NormalizeHeatFlow
    \/ CalculateCrystallinity
    \/ CalculateAverageAngle
    \/ CalculateEngineeringStress
    \/ CalculateEngineeringStrain
    \/ CalculateStrainPercent
    \/ Remember

SpecHelpers == InitHelpers /\ [][NextHelpers]_vars

(* The specific-gravity reading classes whose derived field is filled by a  *)
(* method of their own, and that method.                                    *)
LazyClasses ==
    {"PycnometerMeasurement", "DensityMeterMeasurement", "HydrometerMeasurement"}

OwnHelper(cls) ==
    CASE cls = "PycnometerMeasurement" ->
             "PycnometerMeasurement.calculate_specific_gravity"
      [] cls = "DensityMeterMeasurement" ->
             "DensityMeterMeasurement.calculate_specific_gravity"
      [] cls = "HydrometerMeasurement" ->
             "HydrometerMeasurement.convert_to_specific_gravity"

(* The heap as the constructors left it, before any call. *)
AsBuilt == IF prev = NoRun THEN pre ELSE prev.heap

(* The ratio the raw fields of a reading determine, when they determine    *)
(* one: sample mass over reference mass, density over reference density,   *)
(* or the scale reading converted by the formula of its scale.             *)
HasRatio(o) ==
    CASE o.cls = "PycnometerMeasurement" -> RGt(RSub(o.referenceWeight, o.emptyWeight), I(0))
      [] o.cls = "DensityMeterMeasurement" ->
             RGt(o.referenceDensity, I(0)) /\ RGt(o.densityValue, I(0))
      [] o.cls = "HydrometerMeasurement" ->
             CASE o.scaleType = "Baume_heavy" -> RLt(o.scaleReading, I(145))
               [] o.scaleType = "Baume_light" -> o.scaleReading # I(0 - 130)
               [] o.scaleType = "API" -> o.scaleReading # Rat(0 - 263, 2)
               [] OTHER -> TRUE

Ratio(o) ==
    CASE o.cls = "PycnometerMeasurement" ->
             RDiv(RSub(o.sampleWeight, o.emptyWeight),
                  RSub(o.referenceWeight, o.emptyWeight))
      [] o.cls = "DensityMeterMeasurement" -> RDiv(o.densityValue, o.referenceDensity)
      [] o.cls = "HydrometerMeasurement" ->
             CASE o.scaleType = "Baume_heavy" -> RDiv(I(145), RSub(I(145), o.scaleReading))
               [] o.scaleType = "Baume_light" -> RDiv(I(140), RAdd(I(130), o.scaleReading))
               [] o.scaleType = "API" -> RDiv(Rat(283, 2), RAdd(Rat(263, 2), o.scaleReading))
               [] OTHER -> o.scaleReading

(* The caller's one earlier call was the reading's own helper, and it      *)
(* returned.                                                               *)
HelperCalledOn(id) ==
    /\ prev # NoRun
    /\ prev.self = id
    /\ prev.op = OwnHelper(prev.target.cls)
    /\ prev.status = "ok"

Without(seq, i) == SubSeq(seq, 1, i - 1) \o SubSeq(seq, i + 1, Len(seq))

(* The call in progress ended as it would have with record i left out.     *)
Skipped(i) ==
    LET without == Dispatch(last.op, pre[last.self], Without(Passed, i), last.arg)
    IN  /\ heap[last.self] = without.obj
        /\ ret = without.ret
        /\ status = without.status

(* C27 as stated: a PycnometerMeasurement, DensityMeterMeasurement or      *)
(* HydrometerMeasurement built with specificGravityValue left at 0.0 is    *)
(* skipped by ReferentialSpecificGravity.calculate_from_measurements as    *)
(* long as its own calculate_specific_gravity / convert_to_specific_gravity *)
(* has not been called; once that method has been called and has returned, *)
(* the reading holds the value the method returned and the stored mean     *)
(* counts it.                                                              *)
C27_ContributesOnceHelperCalled ==
    InCall({"ReferentialSpecificGravity.calculate_from_measurements"}) =>
        \A i \in DOMAIN last.ms :
            LET id == last.ms[i]
                built == AsBuilt[id]
                valid == {j \in DOMAIN Passed :
                             /\ hasattr(Passed[j], "specificGravityValue")
                             /\ RGt(Passed[j].specificGravityValue, I(0))}
                value == [j \in valid |-> Passed[j].specificGravityValue]
            IN  (built.cls \in LazyClasses /\ built.specificGravityValue = I(0)) =>
                    IF ~HelperCalledOn(id)
                    THEN Passed[i].specificGravityValue = I(0) /\ Skipped(i)
                    ELSE /\ prev.ret = <<Passed[i].specificGravityValue>>
                         /\ i \in valid
                         /\ status = "ok"
                         /\ heap[last.self].specificGravityValue =
                                RDiv(RSum(valid, value), I(Cardinality(valid)))

(* C27: a PycnometerMeasurement, DensityMeterMeasurement or                *)
(* HydrometerMeasurement built with specificGravityValue left at 0.0 and   *)
(* passed to ReferentialSpecificGravity.calculate_from_measurements is     *)
(* skipped (the call ends as if the reading were not in the list) as long  *)
(* as its own calculate_specific_gravity / convert_to_specific_gravity has *)
(* not been called, and still holds 0.0; once that method has been called  *)
(* and the raw fields give a positive ratio, the reading holds that ratio  *)
(* and the stored mean counts it; when the method computed nothing or a    *)
(* ratio that is not positive, the reading stays skipped.                  *)
C27_LazySpecificGravity ==
    InCall({"ReferentialSpecificGravity.calculate_from_measurements"}) =>
        \A i \in DOMAIN last.ms :
            LET id == last.ms[i]
                built == AsBuilt[id]
                valid == {j \in DOMAIN Passed :
                             /\ hasattr(Passed[j], "specificGravityValue")
                             /\ RGt(Passed[j].specificGravityValue, I(0))}
                value == [j \in valid |-> Passed[j].specificGravityValue]
            IN  (built.cls \in LazyClasses /\ built.specificGravityValue = I(0)) =>
                    IF ~HelperCalledOn(id)
                    THEN Passed[i].specificGravityValue = I(0) /\ Skipped(i)
                    ELSE IF HasRatio(built) /\ RGt(Ratio(built), I(0))
                    THEN /\ prev.ret = <<Ratio(built)>>
                         /\ Passed[i].specificGravityValue = Ratio(built)
                         /\ i \in valid
                         /\ status = "ok"
                         /\ heap[last.self].specificGravityValue =
                                RDiv(RSum(valid, value), I(Cardinality(valid)))
                    ELSE Skipped(i)

(* A hydrometer reading of 29 degrees Baume (heavy) was converted, giving  *)
(* 1.25; the mean over it, a pycnometer reading given as 1.5 and a second  *)
(* reading whose helper was never called is (1.25 + 1.5) / 2.              *)
C27_Witness ==
    /\ InCall({"ReferentialSpecificGravity.calculate_from_measurements"})
    /\ prev # NoRun
    /\ prev.op = "HydrometerMeasurement.convert_to_specific_gravity"
    /\ prev.target.scaleType = "Baume_heavy"
    /\ prev.target.specificGravityValue = I(0)
    /\ prev.ret = <<Rat(5, 4)>>
    /\ Len(last.ms) = 3
    /\ prev.self \in Range(last.ms)
    /\ \E i \in DOMAIN last.ms :
           /\ Passed[i].cls \in {"PycnometerMeasurement", "DensityMeterMeasurement"}
           /\ Passed[i].specificGravityValue = I(0)
           /\ HasRatio(Passed[i])
    /\ \E i \in DOMAIN last.ms : Passed[i].specificGravityValue = Rat(3, 2)
    /\ heap[last.self].specificGravityValue = Rat(11, 8)

(* The per-record helper methods, the field each one stores its result in  *)
(* (none for the three that only return it) and the divisor of its         *)
(* formula on the object o with the arguments arg.                         *)
HelperOps ==
    {"TensileMeasurement.calculate_engineering_stress",
     "TensileMeasurement.calculate_engineering_strain",
     "TMAMeasurement.calculate_strain_percent",
     "DSCMeltingMeasurement.normalize_heat_flow",
     "DMAGlassTransitionMeasurement.calculate_tan_delta",
     "StorageModulus.calculate_loss_factor",
     "MeltingPointValue.calculate_crystallinity",
     "PycnometerMeasurement.calculate_specific_gravity",
     "DensityMeterMeasurement.calculate_specific_gravity",
     "HydrometerMeasurement.convert_to_specific_gravity"}

StoredAttr(op) ==
    CASE op = "DMAGlassTransitionMeasurement.calculate_tan_delta" -> "tanDelta"
      [] op = "StorageModulus.calculate_loss_factor" -> "lossFactor"
      [] op = "MeltingPointValue.calculate_crystallinity" -> "crystallinityPercent"
      [] op \in {"PycnometerMeasurement.calculate_specific_gravity",
                 "DensityMeterMeasurement.calculate_specific_gravity",
                 "HydrometerMeasurement.convert_to_specific_gravity"} ->
             "specificGravityValue"
      [] OTHER -> "None"

Divisor(op, o, arg) ==
    CASE op = "TensileMeasurement.calculate_engineering_stress" ->
             RMul(o.specimenWidth, o.specimenThickness)
      [] op = "TensileMeasurement.calculate_engineering_strain" -> o.gaugeLength
      [] op = "TMAMeasurement.calculate_strain_percent" ->
             RMul(o.originalLengthMm, I(1000))
      [] op = "DSCMeltingMeasurement.normalize_heat_flow" -> o.sampleMassMg
      [] op = "DMAGlassTransitionMeasurement.calculate_tan_delta" -> o.storageModulusPa
      [] op = "StorageModulus.calculate_loss_factor" -> o.storageModulusPa
      [] op = "MeltingPointValue.calculate_crystallinity" -> arg[1]
      [] op = "PycnometerMeasurement.calculate_specific_gravity" ->
             RSub(o.referenceWeight, o.emptyWeight)
      [] op = "DensityMeterMeasurement.calculate_specific_gravity" -> o.referenceDensity
      [] op = "HydrometerMeasurement.convert_to_specific_gravity" ->
             CASE o.scaleType = "Baume_heavy" -> RSub(I(145), o.scaleReading)
               [] o.scaleType = "Baume_light" -> RAdd(I(130), o.scaleReading)
               [] o.scaleType = "API" -> RAdd(Rat(263, 2), o.scaleReading)
               [] OTHER -> I(1)

(* C28: every per-record helper returns normally whatever the numeric      *)
(* field values are, and when the divisor of its formula is not positive   *)
(* it changes nothing and returns 0.0 or the value already stored.         *)
C28_HelpersAreTotal ==
    InCall(HelperOps) =>
        /\ status = "ok"
        /\ RLe(Divisor(last.op, pre[last.self], last.arg), I(0)) =>
               /\ heap = pre
               /\ \/ ret = <<I(0)>>
                  \/ /\ StoredAttr(last.op) # "None"
                     /\ ret = <<pre[last.self][StoredAttr(last.op)]>>

====
